---------------------------- MODULE Spec2Model ----------------------------
(***************************************************************************)
(* A model of the task state engine of todo_cli (crate todo_core):        *)
(*   storage/json_store.rs   load_state / save_state, the document         *)
(*   task_api.rs             the task operations and the list queries      *)
(*                                                                         *)
(* Text is a sequence of character tokens (" " is whitespace), so that     *)
(* str::trim is computed.  An RFC3339 text is a record naming the instant  *)
(* it denotes (t, in clock units since the epoch), its UTC offset, whether *)
(* its spelling is the one the formatter produces (canon) and whether      *)
(* whitespace surrounds it (pad).  Option<T> is a record with k = "none"   *)
(* or k = "some".                                                          *)
(***************************************************************************)
EXTENDS Integers, Sequences, FiniteSets, TLC

VARIABLES
    disk,   \* what is at the store path: no file, a document, or torn bytes
    now,    \* the system clock (OffsetDateTime::now_utc), in clock units
    nadds,  \* how many tasks were ever written (names each task, see uid)
    nsaves, \* how many times the file was written (the write that left the
            \* file found at the start included)
    last,   \* the last call that reached fs::write, by name
            \* (SpecConc: the invocation that wrote last)
    ret,    \* SpecQuery, SpecCall: what the last query or call returned
    pc,     \* SpecConc: where each concurrent invocation stands
    pend    \* SpecConc: the document an invocation is about to write

vars == <<disk, now, nadds, nsaves, last, ret, pc, pend>>

----------------------------------------------------------------------------
(* Bounds of the model.                                                    *)

\* the clock takes the values 0..MaxTime
MaxTime == 1
\* the file is written at most MaxSaves times in one behaviour
MaxSaves == 3
\* at most MaxAdds tasks are created in one behaviour
MaxAdds == 2
\* clock units per calendar day
DayLen == 2

\* json_store.rs:6  pub const SCHEMA_VERSION: u32 = 5
SCHEMA_VERSION == 5

----------------------------------------------------------------------------
(* Text, options, errors.                                                  *)

None == [k |-> "none"]
Some(x) == [k |-> "some", v |-> x]

RECURSIVE TrimStart(_)
TrimStart(s) ==
    IF s = <<>> THEN <<>>
    ELSE IF Head(s) = " " THEN TrimStart(Tail(s)) ELSE s

RECURSIVE TrimEnd(_)
TrimEnd(s) ==
    IF s = <<>> THEN <<>>
    ELSE IF s[Len(s)] = " " THEN TrimEnd(SubSeq(s, 1, Len(s) - 1)) ELSE s

\* str::trim
Trim(s) == TrimEnd(TrimStart(s))

NoErr == [kind |-> "ok", msg |-> ""]
InvalidInput(m) == [kind |-> "InvalidInput", msg |-> m]
InvalidData(m) == [kind |-> "InvalidData", msg |-> m]
IoError(m) == [kind |-> "Io", msg |-> m]

\* RFC3339 texts
BlankText == [k |-> "blank"]
BadText == [k |-> "bad"]
DateTime(t, off, canon, pad) ==
    [k |-> "dt", t |-> t, off |-> off, canon |-> canon, pad |-> pad]

\* str::trim on a datetime text
TrimDateTime(s) == IF s.k = "dt" THEN [s EXCEPT !.pad = FALSE] ELSE s

\* OffsetDateTime::parse(text, &Rfc3339): surrounding whitespace does not parse
ParseRfc3339(s) ==
    IF s.k = "dt" /\ ~s.pad
    THEN [ok |-> TRUE, t |-> s.t, off |-> s.off]
    ELSE [ok |-> FALSE, t |-> 0, off |-> 0]

\* OffsetDateTime::format(&Rfc3339): the canonical spelling, same instant and offset
FormatRfc3339(p) == DateTime(p.t, p.off, TRUE, FALSE)

\* OffsetDateTime::now_utc().format(&Rfc3339)
NowText(clk) == FormatRfc3339([ok |-> TRUE, t |-> clk, off |-> 0])

\* OffsetDateTime::to_offset(offset).date(): the calendar day in that offset
LocalDate(t, offset) == (t + offset) \div DayLen

Digits == <<"0", "1", "2", "3", "4", "5", "6", "7", "8", "9">>

\* format!("task-{}", now.unix_timestamp_nanos())
NewId(clk) == <<"task-", Digits[clk + 1]>>

----------------------------------------------------------------------------
(* The document and the store.                                             *)

NoFile == [kind |-> "none"]
\* bytes that are no complete document: an empty or partly written file of
\* n length units
Torn(n) == [kind |-> "torn", len |-> n]
Doc(ver, tasks, focus) ==
    [kind |-> "doc", ver |-> ver, tasks |-> tasks, focused_task_id |-> focus]

TaskState(tasks, focus) == [tasks |-> tasks, focused_task_id |-> focus]
EmptyState == TaskState(<<>>, None)

\* the ids of a task list
Ids(tasks) == {tasks[i].id : i \in DOMAIN tasks}

\* (mutant) load_state with stored.schema_version != SCHEMA_VERSION for the
\* range test
LoadStateExact(d) ==
    IF d.kind = "none" THEN [err |-> NoErr, state |-> EmptyState]
    ELSE IF d.kind = "torn"
    THEN [err |-> InvalidData("parse"), state |-> EmptyState]
    ELSE IF d.ver # SCHEMA_VERSION
    THEN [err |-> InvalidData("schema_version mismatch"), state |-> EmptyState]
    ELSE IF d.focused_task_id.k = "some"
            /\ ~(d.focused_task_id.v \in Ids(d.tasks))
    THEN [err |-> InvalidData("focused_task_id not found"), state |-> EmptyState]
    ELSE [err |-> NoErr, state |-> TaskState(d.tasks, d.focused_task_id)]

\* json_store::load_state
LoadState(d) ==
    IF d.kind = "none" THEN [err |-> NoErr, state |-> EmptyState]
    ELSE IF d.kind = "torn"
    THEN [err |-> InvalidData("parse"), state |-> EmptyState]
    ELSE IF ~(d.ver \in 1..SCHEMA_VERSION)
    THEN [err |-> InvalidData("schema_version mismatch"), state |-> EmptyState]
    ELSE IF d.focused_task_id.k = "some"
            /\ ~(d.focused_task_id.v \in Ids(d.tasks))
    THEN [err |-> InvalidData("focused_task_id not found"), state |-> EmptyState]
    ELSE [err |-> NoErr, state |-> TaskState(d.tasks, d.focused_task_id)]

\* the tasks that load_state finds in the file d
TasksOf(d) == LoadState(d).state.tasks

\* How a save can end: every step succeeds; create_dir_all fails; fs::write
\* fails after it truncated the file; set_permissions fails.
SaveOutcomes == {"ok", "mkdir", "write", "chmod"}

\* (mutant) the StoredTasks value without the focus, as the schema was
\* before focused_task_id
StoredTasksNoFocus(state) == Doc(SCHEMA_VERSION, state.tasks, None)

\* the StoredTasks value save_state serializes
StoredTasks(state) ==
    Doc(SCHEMA_VERSION, state.tasks, state.focused_task_id)

\* (mutant) save_state that writes back the schema_version it found in the
\* file
SaveStateKeepsVersion(d, state, io) ==
    LET new == Doc(IF d.kind = "doc" THEN d.ver ELSE SCHEMA_VERSION,
                   state.tasks, state.focused_task_id)
    IN
    CASE io = "mkdir" -> [err |-> IoError("create_dir_all"), disk |-> d]
      [] io = "write" -> [err |-> IoError("write"), disk |-> Torn(0)]
      [] io = "chmod" -> [err |-> IoError("set_permissions"), disk |-> new]
      [] OTHER        -> [err |-> NoErr, disk |-> new]

\* json_store::save_state, as one step
SaveState(d, state, io) ==
    LET new == StoredTasks(state) IN
    CASE io = "mkdir" -> [err |-> IoError("create_dir_all"), disk |-> d]
      [] io = "write" -> [err |-> IoError("write"), disk |-> Torn(0)]
      [] io = "chmod" -> [err |-> IoError("set_permissions"), disk |-> new]
      [] OTHER        -> [err |-> NoErr, disk |-> new]

----------------------------------------------------------------------------
(* The outcome of a handler: the error (or none), the tasks returned, and  *)
(* the state handed to save_state (save = FALSE when the handler returned  *)
(* before calling it).                                                     *)

Fail(e) == [err |-> e, ret |-> <<>>, save |-> FALSE, state |-> EmptyState]
Done(tasks) == [err |-> NoErr, ret |-> tasks, save |-> FALSE, state |-> EmptyState]
Save(task, state) == [err |-> NoErr, ret |-> <<task>>, save |-> TRUE, state |-> state]

\* tasks.iter().position(|task| task.id == id): 0 when there is none
Position(tasks, id) ==
    IF \E i \in DOMAIN tasks : tasks[i].id = id
    THEN CHOOSE i \in DOMAIN tasks :
            /\ tasks[i].id = id
            /\ \A j \in 1..(i - 1) : tasks[j].id # id
    ELSE 0

\* Vec::remove(index)
RemoveAt(s, i) == SubSeq(s, 1, i - 1) \o SubSeq(s, i + 1, Len(s))

\* if state.focused_task_id.as_deref() == Some(trimmed_id) { ... = None }
ClearFocusIf(focus, id) == IF focus = Some(id) THEN None ELSE focus


----------------------------------------------------------------------------
(* task_api.rs: the handlers, each a function of the file it finds (d),    *)
(* its arguments, the clock reading (clk) and the local UTC offset (lo).   *)
(* uid is the model's name for the task an Add creates: the code has no    *)
(* such field, it tells two tasks with equal ids apart.                    *)

NewTask(uid, clk, title, urgent) ==
    [uid |-> uid, id |-> NewId(clk), title |-> title, status |-> "Pending",
     created_at |-> NowText(clk), scheduled_at |-> None, completed_at |-> None,
     completion_history |-> <<>>, urgent |-> urgent]

\* (mutant) add_task_with_path with load_state(path).unwrap_or_default():
\* a document that does not load is replaced by one holding the new task
AddTaskOverCorrupt(d, title, urgent, clk, uid) ==
    LET trimmed == Trim(title)
        ld == LoadState(d)
        task == NewTask(uid, clk, trimmed, urgent)
    IN
    IF trimmed = <<>> THEN Fail(InvalidInput("title is required"))
    ELSE Save(task, [ld.state EXCEPT !.tasks = Append(@, task)])

\* add_task_with_path
AddTaskWithPath(d, title, urgent, clk, uid) ==
    LET trimmed == Trim(title)
        ld == LoadState(d)
        task == NewTask(uid, clk, trimmed, urgent)
    IN
    IF trimmed = <<>> THEN Fail(InvalidInput("title is required"))
    ELSE IF ld.err # NoErr THEN Fail(ld.err)
    ELSE Save(task, [ld.state EXCEPT !.tasks = Append(@, task)])

\* get_task_by_id_with_path
GetTaskByIdWithPath(d, id) ==
    LET trimmed_id == Trim(id)
        ld == LoadState(d)
        i == Position(ld.state.tasks, trimmed_id)
    IN
    IF trimmed_id = <<>> THEN Fail(InvalidInput("id is required"))
    ELSE IF ld.err # NoErr THEN Fail(ld.err)
    ELSE IF i = 0 THEN Fail(InvalidInput("task not found"))
    ELSE Done(<<ld.state.tasks[i]>>)

\* (mutant) set_task_urgent_with_path that flips the flag instead of
\* storing the value given
SetTaskUrgentToggles(d, id, urgent) ==
    LET trimmed_id == Trim(id)
        ld == LoadState(d)
        i == Position(ld.state.tasks, trimmed_id)
        tasks == [ld.state.tasks EXCEPT ![i].urgent = ~@]
    IN
    IF trimmed_id = <<>> THEN Fail(InvalidInput("id is required"))
    ELSE IF ld.err # NoErr THEN Fail(ld.err)
    ELSE IF i = 0 THEN Fail(InvalidInput("task not found"))
    ELSE Save(tasks[i], [ld.state EXCEPT !.tasks = tasks])

\* set_task_urgent_with_path
SetTaskUrgentWithPath(d, id, urgent) ==
    LET trimmed_id == Trim(id)
        ld == LoadState(d)
        i == Position(ld.state.tasks, trimmed_id)
        tasks == [ld.state.tasks EXCEPT ![i].urgent = urgent]
    IN
    IF trimmed_id = <<>> THEN Fail(InvalidInput("id is required"))
    ELSE IF ld.err # NoErr THEN Fail(ld.err)
    ELSE IF i = 0 THEN Fail(InvalidInput("task not found"))
    ELSE Save(tasks[i], [ld.state EXCEPT !.tasks = tasks])

\* (mutant) edit_task_with_path that writes the edited task back as Pending
EditTaskReopens(d, id, new_title) ==
    LET trimmed_id == Trim(id)
        trimmed_title == Trim(new_title)
        ld == LoadState(d)
        i == Position(ld.state.tasks, trimmed_id)
        tasks == [ld.state.tasks EXCEPT ![i].title = trimmed_title,
                                        ![i].status = "Pending"]
    IN
    IF trimmed_id = <<>> THEN Fail(InvalidInput("id is required"))
    ELSE IF trimmed_title = <<>> THEN Fail(InvalidInput("title is required"))
    ELSE IF ld.err # NoErr THEN Fail(ld.err)
    ELSE IF i = 0 THEN Fail(InvalidInput("task not found"))
    ELSE Save(tasks[i],
              TaskState(tasks, ClearFocusIf(ld.state.focused_task_id, trimmed_id)))

\* (mutant) edit_task_with_path without the clearing of the focus
EditTaskKeepsFocus(d, id, new_title) ==
    LET trimmed_id == Trim(id)
        trimmed_title == Trim(new_title)
        ld == LoadState(d)
        i == Position(ld.state.tasks, trimmed_id)
        tasks == [ld.state.tasks EXCEPT ![i].title = trimmed_title]
    IN
    IF trimmed_id = <<>> THEN Fail(InvalidInput("id is required"))
    ELSE IF trimmed_title = <<>> THEN Fail(InvalidInput("title is required"))
    ELSE IF ld.err # NoErr THEN Fail(ld.err)
    ELSE IF i = 0 THEN Fail(InvalidInput("task not found"))
    ELSE Save(tasks[i], TaskState(tasks, ld.state.focused_task_id))

\* edit_task_with_path
EditTaskWithPath(d, id, new_title) ==
    LET trimmed_id == Trim(id)
        trimmed_title == Trim(new_title)
        ld == LoadState(d)
        i == Position(ld.state.tasks, trimmed_id)
        tasks == [ld.state.tasks EXCEPT ![i].title = trimmed_title]
    IN
    IF trimmed_id = <<>> THEN Fail(InvalidInput("id is required"))
    ELSE IF trimmed_title = <<>> THEN Fail(InvalidInput("title is required"))
    ELSE IF ld.err # NoErr THEN Fail(ld.err)
    ELSE IF i = 0 THEN Fail(InvalidInput("task not found"))
    ELSE Save(tasks[i],
              TaskState(tasks, ClearFocusIf(ld.state.focused_task_id, trimmed_id)))

\* (mutant) delete_task_with_path without the clearing of the focus
DeleteTaskKeepsFocus(d, id) ==
    LET trimmed_id == Trim(id)
        ld == LoadState(d)
        i == Position(ld.state.tasks, trimmed_id)
    IN
    IF trimmed_id = <<>> THEN Fail(InvalidInput("id is required"))
    ELSE IF ld.err # NoErr THEN Fail(ld.err)
    ELSE IF i = 0 THEN Fail(InvalidInput("task not found"))
    ELSE Save(ld.state.tasks[i],
              TaskState(RemoveAt(ld.state.tasks, i), ld.state.focused_task_id))

\* delete_task_with_path
DeleteTaskWithPath(d, id) ==
    LET trimmed_id == Trim(id)
        ld == LoadState(d)
        i == Position(ld.state.tasks, trimmed_id)
    IN
    IF trimmed_id = <<>> THEN Fail(InvalidInput("id is required"))
    ELSE IF ld.err # NoErr THEN Fail(ld.err)
    ELSE IF i = 0 THEN Fail(InvalidInput("task not found"))
    ELSE Save(ld.state.tasks[i],
              TaskState(RemoveAt(ld.state.tasks, i),
                        ClearFocusIf(ld.state.focused_task_id, trimmed_id)))

\* the body of the loops of complete_task_with_path and
\* complete_focused_task_with_path on the matched task
CompleteFields(task, trimmed_message, clk) ==
    LET completed_at == NowText(clk) IN
    [task EXCEPT
        !.status = "Completed",
        !.completed_at = Some(completed_at),
        !.completion_history =
            IF trimmed_message.k = "some"
            THEN Append(@, [message |-> trimmed_message.v,
                            completed_at |-> completed_at])
            ELSE @]

\* (mutant) complete_task_with_path that checks the message before the
\* status, the order of complete_focused_task_with_path
CompleteTaskMessageFirst(d, id, message, clk) ==
    LET trimmed_id == Trim(id)
        ld == LoadState(d)
        i == Position(ld.state.tasks, trimmed_id)
        trimmed_message ==
            IF message.k = "some" THEN Some(Trim(message.v)) ELSE None
        tasks == [ld.state.tasks EXCEPT
                     ![i] = CompleteFields(@, trimmed_message, clk)]
    IN
    IF trimmed_id = <<>> THEN Fail(InvalidInput("id is required"))
    ELSE IF ld.err # NoErr THEN Fail(ld.err)
    ELSE IF i = 0 THEN Fail(InvalidInput("task not found"))
    ELSE IF message.k = "some" /\ trimmed_message.v = <<>>
    THEN Fail(InvalidInput("message is required"))
    ELSE IF ld.state.tasks[i].status = "Completed"
    THEN Fail(InvalidInput("task already completed"))
    ELSE Save(tasks[i],
              TaskState(tasks, ClearFocusIf(ld.state.focused_task_id, trimmed_id)))

\* (mutant) complete_task_with_path without the test of the status
CompleteTaskAgain(d, id, message, clk) ==
    LET trimmed_id == Trim(id)
        ld == LoadState(d)
        i == Position(ld.state.tasks, trimmed_id)
        trimmed_message ==
            IF message.k = "some" THEN Some(Trim(message.v)) ELSE None
        tasks == [ld.state.tasks EXCEPT
                     ![i] = CompleteFields(@, trimmed_message, clk)]
    IN
    IF trimmed_id = <<>> THEN Fail(InvalidInput("id is required"))
    ELSE IF ld.err # NoErr THEN Fail(ld.err)
    ELSE IF i = 0 THEN Fail(InvalidInput("task not found"))
    ELSE IF message.k = "some" /\ trimmed_message.v = <<>>
    THEN Fail(InvalidInput("message is required"))
    ELSE Save(tasks[i],
              TaskState(tasks, ClearFocusIf(ld.state.focused_task_id, trimmed_id)))

\* (mutant) complete_task_with_path that clears the focus whatever it is,
\* as complete_focused_task_with_path does
CompleteTaskClearsFocus(d, id, message, clk) ==
    LET trimmed_id == Trim(id)
        ld == LoadState(d)
        i == Position(ld.state.tasks, trimmed_id)
        trimmed_message ==
            IF message.k = "some" THEN Some(Trim(message.v)) ELSE None
        tasks == [ld.state.tasks EXCEPT
                     ![i] = CompleteFields(@, trimmed_message, clk)]
    IN
    IF trimmed_id = <<>> THEN Fail(InvalidInput("id is required"))
    ELSE IF ld.err # NoErr THEN Fail(ld.err)
    ELSE IF i = 0 THEN Fail(InvalidInput("task not found"))
    ELSE IF ld.state.tasks[i].status = "Completed"
    THEN Fail(InvalidInput("task already completed"))
    ELSE IF message.k = "some" /\ trimmed_message.v = <<>>
    THEN Fail(InvalidInput("message is required"))
    ELSE Save(tasks[i], TaskState(tasks, None))

\* complete_task_with_path
CompleteTaskWithPath(d, id, message, clk) ==
    LET trimmed_id == Trim(id)
        ld == LoadState(d)
        i == Position(ld.state.tasks, trimmed_id)
        trimmed_message ==
            IF message.k = "some" THEN Some(Trim(message.v)) ELSE None
        tasks == [ld.state.tasks EXCEPT
                     ![i] = CompleteFields(@, trimmed_message, clk)]
    IN
    IF trimmed_id = <<>> THEN Fail(InvalidInput("id is required"))
    ELSE IF ld.err # NoErr THEN Fail(ld.err)
    ELSE IF i = 0 THEN Fail(InvalidInput("task not found"))
    ELSE IF ld.state.tasks[i].status = "Completed"
    THEN Fail(InvalidInput("task already completed"))
    ELSE IF message.k = "some" /\ trimmed_message.v = <<>>
    THEN Fail(InvalidInput("message is required"))
    ELSE Save(tasks[i],
              TaskState(tasks, ClearFocusIf(ld.state.focused_task_id, trimmed_id)))

\* complete_focused_task_with_path
CompleteFocusedTaskWithPath(d, message, clk) ==
    LET ld == LoadState(d)
        focused == ld.state.focused_task_id
        i == IF focused.k = "some" THEN Position(ld.state.tasks, focused.v) ELSE 0
        trimmed_message ==
            IF message.k = "some" THEN Some(Trim(message.v)) ELSE None
        tasks == [ld.state.tasks EXCEPT
                     ![i] = CompleteFields(@, trimmed_message, clk)]
    IN
    IF ld.err # NoErr THEN Fail(ld.err)
    ELSE IF focused.k = "none" THEN Fail(InvalidInput("no focused task"))
    ELSE IF message.k = "some" /\ trimmed_message.v = <<>>
    THEN Fail(InvalidInput("message is required"))
    ELSE IF i = 0 THEN Fail(InvalidInput("task not found"))
    ELSE IF ld.state.tasks[i].status = "Completed"
    THEN Fail(InvalidInput("task already completed"))
    ELSE Save(tasks[i], TaskState(tasks, None))

\* (mutant) set_focus_with_path that stores the focus before it looks the
\* task up
SetFocusSavesFirst(d, id) ==
    LET trimmed_id == Trim(id)
        ld == LoadState(d)
        i == Position(ld.state.tasks, trimmed_id)
        state == [ld.state EXCEPT !.focused_task_id = Some(trimmed_id)]
    IN
    IF trimmed_id = <<>> THEN Fail(InvalidInput("id is required"))
    ELSE IF ld.err # NoErr THEN Fail(ld.err)
    ELSE IF i = 0
    THEN [err |-> InvalidInput("task not found"), ret |-> <<>>, save |-> TRUE,
          state |-> state]
    ELSE Save(ld.state.tasks[i], state)

\* (mutant) set_focus_with_path that stores the id as it was given, not the
\* id of the matched task
SetFocusStoresArgument(d, id) ==
    LET trimmed_id == Trim(id)
        ld == LoadState(d)
        i == Position(ld.state.tasks, trimmed_id)
    IN
    IF trimmed_id = <<>> THEN Fail(InvalidInput("id is required"))
    ELSE IF ld.err # NoErr THEN Fail(ld.err)
    ELSE IF i = 0 THEN Fail(InvalidInput("task not found"))
    ELSE Save(ld.state.tasks[i], [ld.state EXCEPT !.focused_task_id = Some(id)])

\* set_focus_with_path
SetFocusWithPath(d, id) ==
    LET trimmed_id == Trim(id)
        ld == LoadState(d)
        i == Position(ld.state.tasks, trimmed_id)
    IN
    IF trimmed_id = <<>> THEN Fail(InvalidInput("id is required"))
    ELSE IF ld.err # NoErr THEN Fail(ld.err)
    ELSE IF i = 0 THEN Fail(InvalidInput("task not found"))
    ELSE Save(ld.state.tasks[i],
              [ld.state EXCEPT !.focused_task_id = Some(ld.state.tasks[i].id)])

\* (mutant) is_overdue with <= for <
IsOverdueNotStrict(scheduled_at, lo, clk) ==
    LET p == ParseRfc3339(scheduled_at) IN
    IF ~p.ok
    THEN [err |-> InvalidData("scheduled_at must be RFC3339"), v |-> FALSE]
    ELSE [err |-> NoErr, v |-> p.t <= clk]

\* is_overdue: the stored text parsed, moved to the local offset and
\* compared with now_local (OffsetDateTime orders by instant)
IsOverdue(scheduled_at, lo, clk) ==
    LET p == ParseRfc3339(scheduled_at)
        scheduled_local == [p EXCEPT !.off = lo]
        now_local == [ok |-> TRUE, t |-> clk, off |-> lo]
    IN
    IF ~p.ok
    THEN [err |-> InvalidData("scheduled_at must be RFC3339"), v |-> FALSE]
    ELSE [err |-> NoErr, v |-> scheduled_local.t < now_local.t]

\* task_overdue
TaskOverdue(task, lo, clk) ==
    IF task.scheduled_at.k = "none" THEN [err |-> NoErr, v |-> FALSE]
    ELSE IsOverdue(task.scheduled_at.v, lo, clk)

\* the loop of notify_overdue_or_urgent_with_path over the tasks left, acc
\* what it has gathered: the notifier fails for the tasks named in failing;
\* calls lists the tasks the notifier was invoked for
\* (mutants) the loop of notify_overdue_or_urgent_with_path with one slip:
\* "any_status" has no test of the status; "fatal" returns the notifier's
\* error with `?`; "lenient" takes a scheduled_at that does not parse for
\* not overdue
RECURSIVE NotifyLoopSlip(_, _, _, _, _, _)
NotifyLoopSlip(slip, tasks, clk, lo, failing, acc) ==
    IF tasks = <<>> THEN acc
    ELSE
        LET task == Head(tasks)
            od == TaskOverdue(task, lo, clk)
            overdue == IF slip = "lenient" /\ od.err # NoErr
                       THEN [err |-> NoErr, v |-> FALSE] ELSE od
        IN
        IF slip # "any_status" /\ task.status # "Pending"
        THEN NotifyLoopSlip(slip, Tail(tasks), clk, lo, failing, acc)
        ELSE IF overdue.err # NoErr
        THEN [acc EXCEPT !.err = overdue.err, !.ret = <<>>, !.failures = <<>>]
        ELSE IF ~overdue.v /\ ~task.urgent
        THEN NotifyLoopSlip(slip, Tail(tasks), clk, lo, failing, acc)
        ELSE IF task.uid \in failing
        THEN IF slip = "fatal"
             THEN [acc EXCEPT !.calls = Append(@, task), !.err = IoError("notify"),
                              !.ret = <<>>, !.failures = <<>>]
             ELSE NotifyLoopSlip(slip, Tail(tasks), clk, lo, failing,
                      [acc EXCEPT !.calls = Append(@, task),
                                  !.failures = Append(@, [task_id |-> task.id,
                                                          error |-> "notify"])])
        ELSE NotifyLoopSlip(slip, Tail(tasks), clk, lo, failing,
                 [acc EXCEPT !.calls = Append(@, task), !.ret = Append(@, task)])

NotifyLoopAnyStatus(tasks, clk, lo, failing, acc) ==
    NotifyLoopSlip("any_status", tasks, clk, lo, failing, acc)

NotifyLoopFatal(tasks, clk, lo, failing, acc) ==
    NotifyLoopSlip("fatal", tasks, clk, lo, failing, acc)

NotifyLoopLenient(tasks, clk, lo, failing, acc) ==
    NotifyLoopSlip("lenient", tasks, clk, lo, failing, acc)

\* the loop of notify_overdue_or_urgent_with_path over the stored tasks;
\* failing is the set of tasks for which the notifier returns Err, calls the
\* tasks the notifier was invoked for, in order
RECURSIVE NotifyLoop(_, _, _, _, _)
NotifyLoop(tasks, clk, lo, failing, acc) ==
    IF tasks = <<>> THEN acc
    ELSE
        LET task == Head(tasks)
            overdue == TaskOverdue(task, lo, clk)
        IN
        IF task.status # "Pending"
        THEN NotifyLoop(Tail(tasks), clk, lo, failing, acc)
        ELSE IF overdue.err # NoErr
        THEN [acc EXCEPT !.err = overdue.err, !.ret = <<>>, !.failures = <<>>]
        ELSE IF ~overdue.v /\ ~task.urgent
        THEN NotifyLoop(Tail(tasks), clk, lo, failing, acc)
        ELSE IF task.uid \in failing
        THEN NotifyLoop(Tail(tasks), clk, lo, failing,
                 [acc EXCEPT !.calls = Append(@, task),
                             !.failures = Append(@, [task_id |-> task.id,
                                                     error |-> "notify"])])
        ELSE NotifyLoop(Tail(tasks), clk, lo, failing,
                 [acc EXCEPT !.calls = Append(@, task), !.ret = Append(@, task)])

\* notify_overdue_or_urgent_with_path: ret is NotificationOutcome.tasks
NotifyOverdueOrUrgentWithPath(d, clk, lo, failing) ==
    LET ld == LoadState(d)
        none == [err |-> NoErr, ret |-> <<>>, save |-> FALSE, state |-> EmptyState,
                 failures |-> <<>>, calls |-> <<>>]
    IN
    IF ld.err # NoErr THEN [none EXCEPT !.err = ld.err]
    ELSE NotifyLoop(ld.state.tasks, clk, lo, failing, none)

\* (mutant) update_schedule_with_path that asks whether the task is overdue
\* before it asks whether it is scheduled
UpdateScheduleOverdueFirst(d, id, datetime, require_existing, require_overdue, clk, lo) ==
    LET trimmed_id == Trim(id)
        trimmed_datetime == TrimDateTime(datetime)
        parsed == ParseRfc3339(trimmed_datetime)
        scheduled_at == FormatRfc3339(parsed)
        ld == LoadState(d)
        i == Position(ld.state.tasks, trimmed_id)
        cur == ld.state.tasks[i].scheduled_at
        od == IsOverdue(cur.v, lo, clk)
        tasks == [ld.state.tasks EXCEPT ![i].scheduled_at = Some(scheduled_at)]
    IN
    IF trimmed_id = <<>> THEN Fail(InvalidInput("id is required"))
    ELSE IF trimmed_datetime.k = "blank"
    THEN Fail(InvalidInput("datetime is required"))
    ELSE IF ~parsed.ok THEN Fail(InvalidInput("datetime must be RFC3339"))
    ELSE IF ld.err # NoErr THEN Fail(ld.err)
    ELSE IF i = 0 THEN Fail(InvalidInput("task not found"))
    ELSE IF require_overdue /\ cur.k = "none"
    THEN Fail(InvalidInput("task is not overdue"))
    ELSE IF require_existing /\ cur.k = "none"
    THEN Fail(InvalidInput("task is not scheduled"))
    ELSE IF require_overdue /\ od.err # NoErr THEN Fail(od.err)
    ELSE IF require_overdue /\ ~od.v
    THEN Fail(InvalidInput("task is not overdue"))
    ELSE Save(tasks[i], [ld.state EXCEPT !.tasks = tasks])

\* (mutant) update_schedule_with_path that stores the datetime as it was
\* given, trimmed, instead of the formatted parse
UpdateScheduleKeepsText(d, id, datetime, require_existing, require_overdue, clk, lo) ==
    LET trimmed_id == Trim(id)
        trimmed_datetime == TrimDateTime(datetime)
        parsed == ParseRfc3339(trimmed_datetime)
        scheduled_at == FormatRfc3339(parsed)
        ld == LoadState(d)
        i == Position(ld.state.tasks, trimmed_id)
        cur == ld.state.tasks[i].scheduled_at
        od == IsOverdue(cur.v, lo, clk)
        tasks == [ld.state.tasks EXCEPT ![i].scheduled_at = Some(trimmed_datetime)]
    IN
    IF trimmed_id = <<>> THEN Fail(InvalidInput("id is required"))
    ELSE IF trimmed_datetime.k = "blank"
    THEN Fail(InvalidInput("datetime is required"))
    ELSE IF ~parsed.ok THEN Fail(InvalidInput("datetime must be RFC3339"))
    ELSE IF ld.err # NoErr THEN Fail(ld.err)
    ELSE IF i = 0 THEN Fail(InvalidInput("task not found"))
    ELSE IF require_existing /\ cur.k = "none"
    THEN Fail(InvalidInput("task is not scheduled"))
    ELSE IF require_overdue /\ cur.k = "none"
    THEN Fail(InvalidInput("task is not scheduled"))
    ELSE IF require_overdue /\ od.err # NoErr THEN Fail(od.err)
    ELSE IF require_overdue /\ ~od.v
    THEN Fail(InvalidInput("task is not overdue"))
    ELSE Save(tasks[i], [ld.state EXCEPT !.tasks = tasks])

\* (mutant) update_schedule_with_path that, when the task must be overdue,
\* takes no new datetime that is itself before now
UpdateScheduleForward(d, id, datetime, require_existing, require_overdue, clk, lo) ==
    LET trimmed_id == Trim(id)
        trimmed_datetime == TrimDateTime(datetime)
        parsed == ParseRfc3339(trimmed_datetime)
        scheduled_at == FormatRfc3339(parsed)
        ld == LoadState(d)
        i == Position(ld.state.tasks, trimmed_id)
        cur == ld.state.tasks[i].scheduled_at
        od == IsOverdue(cur.v, lo, clk)
        tasks == [ld.state.tasks EXCEPT ![i].scheduled_at = Some(scheduled_at)]
    IN
    IF trimmed_id = <<>> THEN Fail(InvalidInput("id is required"))
    ELSE IF trimmed_datetime.k = "blank"
    THEN Fail(InvalidInput("datetime is required"))
    ELSE IF ~parsed.ok THEN Fail(InvalidInput("datetime must be RFC3339"))
    ELSE IF ld.err # NoErr THEN Fail(ld.err)
    ELSE IF i = 0 THEN Fail(InvalidInput("task not found"))
    ELSE IF require_existing /\ cur.k = "none"
    THEN Fail(InvalidInput("task is not scheduled"))
    ELSE IF require_overdue /\ cur.k = "none"
    THEN Fail(InvalidInput("task is not scheduled"))
    ELSE IF require_overdue /\ od.err # NoErr THEN Fail(od.err)
    ELSE IF require_overdue /\ ~od.v
    THEN Fail(InvalidInput("task is not overdue"))
    ELSE IF require_overdue /\ parsed.t < clk
    THEN Fail(InvalidInput("datetime must be in the future"))
    ELSE Save(tasks[i], [ld.state EXCEPT !.tasks = tasks])

\* update_schedule_with_path
UpdateScheduleWithPath(d, id, datetime, require_existing, require_overdue, clk, lo) ==
    LET trimmed_id == Trim(id)
        trimmed_datetime == TrimDateTime(datetime)
        parsed == ParseRfc3339(trimmed_datetime)
        scheduled_at == FormatRfc3339(parsed)
        ld == LoadState(d)
        i == Position(ld.state.tasks, trimmed_id)
        cur == ld.state.tasks[i].scheduled_at
        od == IsOverdue(cur.v, lo, clk)
        tasks == [ld.state.tasks EXCEPT ![i].scheduled_at = Some(scheduled_at)]
    IN
    IF trimmed_id = <<>> THEN Fail(InvalidInput("id is required"))
    ELSE IF trimmed_datetime.k = "blank"
    THEN Fail(InvalidInput("datetime is required"))
    ELSE IF ~parsed.ok THEN Fail(InvalidInput("datetime must be RFC3339"))
    ELSE IF ld.err # NoErr THEN Fail(ld.err)
    ELSE IF i = 0 THEN Fail(InvalidInput("task not found"))
    ELSE IF require_existing /\ cur.k = "none"
    THEN Fail(InvalidInput("task is not scheduled"))
    ELSE IF require_overdue /\ cur.k = "none"
    THEN Fail(InvalidInput("task is not scheduled"))
    ELSE IF require_overdue /\ od.err # NoErr THEN Fail(od.err)
    ELSE IF require_overdue /\ ~od.v
    THEN Fail(InvalidInput("task is not overdue"))
    ELSE Save(tasks[i], [ld.state EXCEPT !.tasks = tasks])

\* schedule_task_with_path
ScheduleTaskWithPath(d, id, datetime, clk, lo) ==
    UpdateScheduleWithPath(d, id, datetime, FALSE, FALSE, clk, lo)

\* reschedule_task_with_path
RescheduleTaskWithPath(d, id, datetime, clk, lo) ==
    UpdateScheduleWithPath(d, id, datetime, TRUE, TRUE, clk, lo)

\* (mutant) the loop body of filter_tasks with >= for Backlog
TaskMatchesOverlap(task, today, lo, mode) ==
    IF task.scheduled_at.k = "none" THEN mode = "Backlog"
    ELSE LET scheduled_date ==
                 LocalDate(ParseRfc3339(task.scheduled_at.v).t, lo)
         IN IF mode = "Today" THEN scheduled_date <= today
            ELSE scheduled_date >= today

\* (mutant) the loop body of filter_tasks without to_offset(local_offset):
\* the date is taken in the offset the text was written with
TaskMatchesOwnOffset(task, today, lo, mode) ==
    IF task.scheduled_at.k = "none" THEN mode = "Backlog"
    ELSE LET p == ParseRfc3339(task.scheduled_at.v)
             scheduled_date == LocalDate(p.t, p.off)
         IN IF mode = "Today" THEN scheduled_date <= today
            ELSE scheduled_date > today

\* (mutant) the loop body of filter_tasks with < for Today
TaskMatchesStrict(task, today, lo, mode) ==
    IF task.scheduled_at.k = "none" THEN mode = "Backlog"
    ELSE LET scheduled_date ==
                 LocalDate(ParseRfc3339(task.scheduled_at.v).t, lo)
         IN IF mode = "Today" THEN scheduled_date < today
            ELSE scheduled_date > today

\* the loop body of filter_tasks: a task matches by the calendar day of its
\* schedule in the local offset; the first scheduled_at that does not parse
\* ends the loop with InvalidData (FilterTasks)
TaskMatches(task, today, lo, mode) ==
    IF task.scheduled_at.k = "none" THEN mode = "Backlog"
    ELSE LET scheduled_date ==
                 LocalDate(ParseRfc3339(task.scheduled_at.v).t, lo)
         IN IF mode = "Today" THEN scheduled_date <= today
            ELSE scheduled_date > today

\* (mutant) filter_tasks that skips a task whose scheduled_at does not parse
FilterTasksSkips(tasks, today, lo, mode) ==
    [err |-> NoErr,
     tasks |-> SelectSeq(tasks, LAMBDA task :
                  /\ \/ task.scheduled_at.k = "none"
                     \/ ParseRfc3339(task.scheduled_at.v).ok
                  /\ TaskMatches(task, today, lo, mode))]

\* filter_tasks
FilterTasks(tasks, today, lo, mode) ==
    IF \E i \in DOMAIN tasks :
          /\ tasks[i].scheduled_at.k = "some"
          /\ ~ParseRfc3339(tasks[i].scheduled_at.v).ok
    THEN [err |-> InvalidData("scheduled_at must be RFC3339"), tasks |-> <<>>]
    ELSE [err |-> NoErr,
          tasks |-> SelectSeq(tasks, LAMBDA task : TaskMatches(task, today, lo, mode))]

\* list_without_focus
ListWithoutFocus(d, mode, clk, lo) ==
    LET ld == LoadState(d)
        today == LocalDate(clk, lo)
        f == FilterTasks(ld.state.tasks, today, lo, mode)
    IN
    IF ld.err # NoErr THEN Fail(ld.err)
    ELSE IF f.err # NoErr THEN Fail(f.err)
    ELSE Done(f.tasks)

\* (mutant) list_with_focus with tasks.swap(0, index) for remove and insert
ListWithFocusSwaps(d, mode, clk, lo) ==
    LET ld == LoadState(d)
        today == LocalDate(clk, lo)
        f == FilterTasks(ld.state.tasks, today, lo, mode)
        focused == ld.state.focused_task_id
        index == IF focused.k = "some" THEN Position(f.tasks, focused.v) ELSE 0
    IN
    IF ld.err # NoErr THEN Fail(ld.err)
    ELSE IF f.err # NoErr THEN Fail(f.err)
    ELSE IF index = 0 THEN Done(f.tasks)
    ELSE Done([f.tasks EXCEPT ![1] = f.tasks[index], ![index] = f.tasks[1]])

\* (mutant) list_with_focus that ends with save_state(path, &state) on the
\* state it loaded
ListWithFocusSaves(d, mode, clk, lo) ==
    LET ld == LoadState(d)
        today == LocalDate(clk, lo)
        f == FilterTasks(ld.state.tasks, today, lo, mode)
        focused == ld.state.focused_task_id
        index == IF focused.k = "some" THEN Position(f.tasks, focused.v) ELSE 0
        tasks == IF index = 0 THEN f.tasks
                 ELSE <<f.tasks[index]>> \o RemoveAt(f.tasks, index)
    IN
    IF ld.err # NoErr THEN Fail(ld.err)
    ELSE IF f.err # NoErr THEN Fail(f.err)
    ELSE [Done(tasks) EXCEPT !.save = TRUE, !.state = ld.state]

\* list_with_focus: the focused task, when it is in the list, moves first
ListWithFocus(d, mode, clk, lo) ==
    LET ld == LoadState(d)
        today == LocalDate(clk, lo)
        f == FilterTasks(ld.state.tasks, today, lo, mode)
        focused == ld.state.focused_task_id
        index == IF focused.k = "some" THEN Position(f.tasks, focused.v) ELSE 0
    IN
    IF ld.err # NoErr THEN Fail(ld.err)
    ELSE IF f.err # NoErr THEN Fail(f.err)
    ELSE IF index = 0 THEN Done(f.tasks)
    ELSE Done(<<f.tasks[index]>> \o RemoveAt(f.tasks, index))

\* list_today (through list_today_with_focus) and list_backlog
ListToday(d, clk, lo) == ListWithFocus(d, "Today", clk, lo)
ListBacklog(d, clk, lo) == ListWithoutFocus(d, "Backlog", clk, lo)

----------------------------------------------------------------------------
(* The arguments the callers are modelled to pass.                         *)

Pad(s) == <<" ">> \o s \o <<" ">>

\* ids: a blank one, one that no task has, and every id of the file, bare or
\* with whitespace around it
IdArgs(d) ==
    LET ids == IF d.kind = "doc" THEN Ids(d.tasks) ELSE {} IN
    {<<" ">>, <<"nope">>} \cup ids \cup {Pad(id) : id \in ids}

AddTitles == {<<" ">>, <<" ", "a">>}
EditTitles == {<<>>, <<"b", " ">>}
Messages == {None, Some(<<" ">>), Some(<<"m", " ">>)}
LocalOffsets == {-1, 0, 1}

\* UtcOffset::UTC, what local_offset() falls back to; the offset of the
\* machine the mutating calls run on (they compare instants, which no
\* offset changes: see IsOverdue)
UTC == 0

\* datetime arguments: blank, not RFC3339, and the instants 0 and MaxTime
\* (the first in a spelling the formatter does not produce, with whitespace)
DateTimeArgs ==
    {BlankText, BadText, DateTime(0, 1, FALSE, TRUE), DateTime(MaxTime, 0, TRUE, FALSE)}

\* The outcomes of the calls of each operation on the file d at clock clk
AddCalls(d, clk, uid) ==
    {AddTaskWithPath(d, title, urgent, clk, uid) :
        title \in AddTitles, urgent \in BOOLEAN}
EditCalls(d) ==
    {EditTaskWithPath(d, id, title) : id \in IdArgs(d), title \in EditTitles}
DeleteCalls(d) == {DeleteTaskWithPath(d, id) : id \in IdArgs(d)}
CompleteCalls(d, clk) ==
    {CompleteTaskWithPath(d, id, message, clk) :
        id \in IdArgs(d), message \in Messages}
CompleteFocusedCalls(d, clk) ==
    {CompleteFocusedTaskWithPath(d, message, clk) : message \in Messages}
ScheduleCalls(d, clk) ==
    {ScheduleTaskWithPath(d, id, dt, clk, UTC) :
        id \in IdArgs(d), dt \in DateTimeArgs}
RescheduleCalls(d, clk) ==
    {RescheduleTaskWithPath(d, id, dt, clk, UTC) :
        id \in IdArgs(d), dt \in DateTimeArgs}
SetFocusCalls(d) == {SetFocusWithPath(d, id) : id \in IdArgs(d)}
SetUrgentCalls(d) ==
    {SetTaskUrgentWithPath(d, id, urgent) : id \in IdArgs(d), urgent \in BOOLEAN}

\* every mutating call
MutatingCalls(d, clk, uid) ==
    AddCalls(d, clk, uid) \cup EditCalls(d) \cup DeleteCalls(d)
    \cup CompleteCalls(d, clk) \cup CompleteFocusedCalls(d, clk)
    \cup ScheduleCalls(d, clk) \cup RescheduleCalls(d, clk)
    \cup SetFocusCalls(d) \cup SetUrgentCalls(d)

\* A file found at the start that schema version 1 wrote (no scheduled_at,
\* completed_at, completion_history, urgent or focus in it: serde defaults)
\* and a focus was added to: a completed, focused task and a pending one,
\* their ids not of the task-<nanos> form
LegacyTask(uid, id, status) ==
    [uid |-> uid, id |-> id, title |-> <<"old">>, status |-> status,
     created_at |-> NowText(0), scheduled_at |-> None, completed_at |-> None,
     completion_history |-> <<>>, urgent |-> FALSE]
LegacyDoc ==
    Doc(1, <<LegacyTask(0, <<"x">>, "Completed"), LegacyTask(-1, <<"y">>, "Pending")>>,
        Some(<<"x">>))

----------------------------------------------------------------------------
(* Spec: one invocation at a time; each action is one whole handler, its   *)
(* load and its save included.                                             *)

Procs == {1, 2}
NoPend == [doc |-> NoFile, saving |-> FALSE]
NoCall == [op |-> "none"]

Init ==
    /\ disk \in {NoFile, LegacyDoc}
    /\ now = 0
    /\ nadds = 0
    /\ nsaves = IF disk = NoFile THEN 0 ELSE 1
    /\ last = NoCall
    /\ ret = <<>>
    /\ pc = [p \in Procs |-> "idle"]
    /\ pend = [p \in Procs |-> NoPend]

\* what a call leaves behind and returns: handler outcome h, its save ending as io
Outcome(d, h, io) ==
    IF h.save
    THEN LET s == SaveState(d, h.state, io) IN
         [err |-> IF s.err # NoErr THEN s.err ELSE h.err, disk |-> s.disk]
    ELSE [err |-> h.err, disk |-> d]

\* the ways the save of handler outcome h can end
Endings(h) == IF h.save THEN SaveOutcomes ELSE {"ok"}

\* the call of handler outcome h under the name op, which creates `created`
\* tasks: a call that returns before fs::write changes nothing
Exec(op, h, created) ==
    \E io \in Endings(h) :
        LET s == Outcome(disk, h, io)
            wrote == h.save /\ io # "mkdir"
        IN
        /\ h.save => nsaves < MaxSaves /\ nadds + created <= MaxAdds
        /\ disk' = s.disk
        /\ nsaves' = IF wrote THEN nsaves + 1 ELSE nsaves
        /\ nadds' = IF wrote THEN nadds + created ELSE nadds
        /\ last' = IF wrote THEN [op |-> op] ELSE last
        /\ UNCHANGED <<now, ret, pc, pend>>

Add == \E h \in AddCalls(disk, now, nadds + 1) : Exec("add", h, 1)

Edit == \E h \in EditCalls(disk) : Exec("edit", h, 0)

Delete == \E h \in DeleteCalls(disk) : Exec("delete", h, 0)

Complete ==
    \E h \in CompleteCalls(disk, now) : Exec("complete", h, 0)

CompleteFocused ==
    \E h \in CompleteFocusedCalls(disk, now) :
        Exec("complete_focused", h, 0)

Schedule ==
    \E h \in ScheduleCalls(disk, now) : Exec("schedule", h, 0)

Reschedule ==
    \E h \in RescheduleCalls(disk, now) : Exec("reschedule", h, 0)

SetFocus == \E h \in SetFocusCalls(disk) : Exec("set_focus", h, 0)

SetUrgent == \E h \in SetUrgentCalls(disk) : Exec("set_urgent", h, 0)

\* the system clock advances
Tick ==
    /\ now < MaxTime
    /\ now' = now + 1
    /\ UNCHANGED <<disk, nadds, nsaves, last, ret, pc, pend>>

Next ==
    \/ Add
    \/ Edit
    \/ Delete
    \/ Complete
    \/ CompleteFocused
    \/ Schedule
    \/ Reschedule
    \/ SetFocus
    \/ SetUrgent
    \/ Tick

Spec == Init /\ [][Next]_vars

----------------------------------------------------------------------------
(* SpecConc: two invocations against the same path, each one call.  The    *)
(* handler's load and its in-memory change are one step; save_state is its *)
(* file operations: fs::write creates or truncates the file, then writes   *)
(* the bytes at offset 0 of its own handle, then set_permissions.          *)

\* how long the serialized text of an option, a task, a document is, in
\* length units
OptLen(o) == IF o.k = "some" THEN 2 ELSE 1

TaskLen(task) ==
    Len(task.id) + Len(task.title)
    + (IF task.status = "Completed" THEN 2 ELSE 1)
    + OptLen(task.scheduled_at) + OptLen(task.completed_at)
    + 3 * Len(task.completion_history) + 1

RECURSIVE TasksLen(_)
TasksLen(tasks) ==
    IF tasks = <<>> THEN 0 ELSE TaskLen(Head(tasks)) + TasksLen(Tail(tasks))

\* serde_json::to_string_pretty(&stored).len()
DocLen(d) ==
    1 + (IF d.focused_task_id.k = "some" THEN Len(d.focused_task_id.v) ELSE 1)
    + TasksLen(d.tasks)

FileLen(d) ==
    CASE d.kind = "none" -> 0
      [] d.kind = "torn" -> d.len
      [] OTHER -> DocLen(d)

\* write_all(content) at offset 0 of a file that holds d: bytes of d beyond
\* the new content stay
Overwrite(d, new) ==
    IF FileLen(d) > DocLen(new) THEN Torn(FileLen(d)) ELSE new

InitConc ==
    /\ disk \in {NoFile, LegacyDoc}
    /\ now \in 0..MaxTime
    /\ nadds = 0
    /\ nsaves = 0
    /\ last = [op |-> "none", proc |-> 0]
    /\ ret = <<>>
    /\ pc = [p \in Procs |-> "idle"]
    /\ pend = [p \in Procs |-> NoPend]

\* the handler up to its call of save_state
Begin(p) ==
    /\ pc[p] = "idle"
    /\ \E h \in MutatingCalls(disk, now, p) :
          IF h.save
          THEN /\ pc' = [pc EXCEPT ![p] = "open"]
               /\ pend' = [pend EXCEPT ![p] =
                              [doc |-> StoredTasks(h.state), saving |-> TRUE]]
          ELSE /\ pc' = [pc EXCEPT ![p] = "done"]
               /\ pend' = pend
    /\ UNCHANGED <<disk, now, nadds, nsaves, last, ret>>

\* fs::write: File::create truncates the file
OpenTruncate(p) ==
    /\ pc[p] = "open"
    /\ disk' = Torn(0)
    /\ pc' = [pc EXCEPT ![p] = "write"]
    /\ UNCHANGED <<now, nadds, nsaves, last, ret, pend>>

\* fs::write: write_all
WriteAll(p) ==
    /\ pc[p] = "write"
    /\ disk' = Overwrite(disk, pend[p].doc)
    /\ pc' = [pc EXCEPT ![p] = "chmod"]
    /\ last' = [op |-> "write", proc |-> p]
    /\ UNCHANGED <<now, nadds, nsaves, ret, pend>>

\* set_permissions; save_state returns
SetPermissions(p) ==
    /\ pc[p] = "chmod"
    /\ pc' = [pc EXCEPT ![p] = "done"]
    /\ UNCHANGED <<disk, now, nadds, nsaves, last, ret, pend>>

\* the process dies inside save_state
Crash(p) ==
    /\ pc[p] \in {"write", "chmod"}
    /\ pc' = [pc EXCEPT ![p] = "crashed"]
    /\ UNCHANGED <<disk, now, nadds, nsaves, last, ret, pend>>

NextConc ==
    \E p \in Procs :
        \/ Begin(p)
        \/ OpenTruncate(p)
        \/ WriteAll(p)
        \/ SetPermissions(p)
        \/ Crash(p)

SpecConc == InitConc /\ [][NextConc]_vars

----------------------------------------------------------------------------
(* Claims about the operations (Spec).                                     *)

FocusOk(d) ==
    \/ d.focused_task_id = None
    \/ /\ d.focused_task_id.k = "some"
       /\ \E i \in DOMAIN d.tasks : d.tasks[i].id = d.focused_task_id.v

\* C1: after any sequence of calls, the focused_task_id of the document at
\* the path is absent or is the id of one of its tasks, and load_state
\* accepts the document.
C1_FocusConsistent ==
    disk.kind = "doc" => FocusOk(disk) /\ LoadState(disk).err = NoErr

\* C1: a Delete went through and left a focus on a remaining task
C1_Witness ==
    /\ last.op = "delete"
    /\ disk.kind = "doc" /\ disk.focused_task_id.k = "some"

\* C2: a task that is Completed in the document stays Completed in every
\* later document that still holds it (uid names the task).
C2_StatusMonotonic ==
    [][(disk.kind = "doc" /\ disk'.kind = "doc") =>
        \A i \in DOMAIN disk.tasks, j \in DOMAIN disk'.tasks :
            (disk.tasks[i].uid = disk'.tasks[j].uid
             /\ disk.tasks[i].status = "Completed")
            => disk'.tasks[j].status = "Completed"]_vars

\* C2: a task completed by Complete was edited afterwards
C2_Witness ==
    /\ last.op = "edit" /\ disk.kind = "doc"
    /\ \E i \in DOMAIN disk.tasks :
          /\ disk.tasks[i].status = "Completed"
          /\ disk.tasks[i].completed_at.k = "some"
          /\ disk.tasks[i].title = <<"b">>

\* the matched task of id in the file d, when there is one and it is Completed
MatchesCompleted(d, id) ==
    LET ld == LoadState(d)
        i == Position(ld.state.tasks, Trim(id))
    IN ld.err = NoErr /\ i # 0 /\ ld.state.tasks[i].status = "Completed"

\* C3: Complete on a task that is already Completed fails with InvalidInput
\* "task already completed" whatever the message, does not call save_state
\* and leaves the file as it was.
C3_CompletionNotRepeatable ==
    \A id \in IdArgs(disk), message \in Messages :
        MatchesCompleted(disk, id) =>
            LET h == CompleteTaskWithPath(disk, id, message, now) IN
            /\ h.err = InvalidInput("task already completed")
            /\ ~h.save
            /\ \A io \in Endings(h) : Outcome(disk, h, io).disk = disk

\* C3: a Complete went through and its task is still there to be completed again
C3_Witness ==
    /\ last.op = "complete"
    /\ \E id \in IdArgs(disk) :
          /\ MatchesCompleted(disk, id)
          /\ LET i == Position(disk.tasks, Trim(id)) IN
                disk.tasks[i].completed_at.k = "some"

\* C4: a mutating call that returns InvalidInput has not called save_state,
\* and the file is what it was before the call.
C4_ValidationNeverWrites ==
    \A h \in MutatingCalls(disk, now, nadds + 1) :
        \A io \in Endings(h) :
            Outcome(disk, h, io).err.kind = "InvalidInput" =>
                ~h.save /\ Outcome(disk, h, io).disk = disk

\* C4: a document with a task is at the path, and calls on it are rejected
\* for an unknown id, for a completed task and for an unscheduled task
C4_Witness ==
    /\ last.op = "add" /\ disk.kind = "doc"
    /\ Fail(InvalidInput("task not found")) \in DeleteCalls(disk)
    /\ Fail(InvalidInput("task already completed")) \in CompleteCalls(disk, now)
    /\ Fail(InvalidInput("task is not scheduled")) \in RescheduleCalls(disk, now)

\* C6: a call that returns an Io error leaves the file as it was before the
\* call.  (The code writes first and restricts the permissions afterwards.)
C6_FailedSaveNoChange ==
    [][nsaves' = nsaves + 1 =>
        \A h \in MutatingCalls(disk, now, nadds + 1) :
            \A io \in Endings(h) :
                (Outcome(disk, h, io).disk = disk'
                 /\ Outcome(disk, h, io).err.kind = "Io") => disk' = disk]_vars

----------------------------------------------------------------------------
(* Claims about concurrent invocations and crashes (SpecConc).             *)

\* C5: at every instant the file is a complete document (the previous one
\* or the new one), never empty or partly written.
C5_AtomicReplace == disk.kind \in {"none", "doc"}

\* C7: when two invocations have run, the file is the document of the
\* invocation that wrote last, and its focus is consistent.
C7_LastWriterWins ==
    ((\A p \in Procs : pc[p] = "done") /\ last.proc # 0) =>
        /\ disk = pend[last.proc].doc
        /\ FocusOk(disk)

----------------------------------------------------------------------------
(* SpecQuery: the queries, applied to documents drawn from bounded sets at *)
(* every clock reading and local offset.                                   *)

\* schedules are instants 0..MaxSched
MaxSched == 2
\* documents hold at most MaxListLen tasks
MaxListLen == 2

ScheduleValues ==
    {None, Some(BadText)}
    \cup {Some(DateTime(t, off, TRUE, FALSE)) : t \in 0..MaxSched, off \in {0, 1}}

\* the second task of a document is a completed, urgent one
QueryTask(i, sched) ==
    [uid |-> i, id |-> NewId(i), title |-> <<"a">>,
     status |-> IF i = 2 THEN "Completed" ELSE "Pending",
     created_at |-> NowText(0), scheduled_at |-> sched,
     completed_at |-> IF i = 2 THEN Some(NowText(0)) ELSE None,
     completion_history |-> <<>>, urgent |-> (i = 2)]

QueryDocs ==
    {Doc(SCHEMA_VERSION, [i \in 1..n |-> QueryTask(i, f[i])], focus) :
        n \in 0..MaxListLen, f \in [1..MaxListLen -> ScheduleValues],
        focus \in {None, Some(NewId(1)), Some(NewId(2))}}

InitQuery ==
    /\ disk \in {d \in QueryDocs : LoadState(d).err = NoErr}
    /\ now \in 0..MaxSched
    /\ nadds = 0
    /\ nsaves = 0
    /\ last = NoCall
    /\ ret = [op |-> "none", lo |-> 0, err |-> NoErr, tasks |-> <<>>]
    /\ pc = [p \in Procs |-> "idle"]
    /\ pend = [p \in Procs |-> NoPend]

\* a query returns h under the local offset lo
Return(op, lo, h) ==
    /\ ret' = [op |-> op, lo |-> lo, err |-> h.err, tasks |-> h.ret]
    /\ UNCHANGED <<disk, now, nadds, nsaves, last, pc, pend>>

QueryListToday == \E lo \in LocalOffsets : Return("list_today", lo, ListToday(disk, now, lo))

QueryListBacklog ==
    \E lo \in LocalOffsets : Return("list_backlog", lo, ListBacklog(disk, now, lo))

QueryGet == \E id \in IdArgs(disk) : Return("get", 0, GetTaskByIdWithPath(disk, id))

\* task_overdue on a task of the document, under the local offset lo
QueryOverdue ==
    /\ disk.kind = "doc"
    /\ \E i \in DOMAIN disk.tasks, lo \in LocalOffsets :
          LET od == TaskOverdue(disk.tasks[i], lo, now) IN
          /\ ret' = [op |-> "task_overdue", lo |-> lo, err |-> od.err,
                     task |-> disk.tasks[i], v |-> od.v]
          /\ UNCHANGED <<disk, now, nadds, nsaves, last, pc, pend>>

NextQuery ==
    \/ QueryListToday
    \/ QueryListBacklog
    \/ QueryGet
    \/ QueryOverdue

SpecQuery == InitQuery /\ [][NextQuery]_vars

----------------------------------------------------------------------------
(* SpecCall: one mutating call, its save included, on a document drawn     *)
(* from a bounded set at a drawn clock reading.  ret keeps the arguments   *)
(* of the call, what it returned and the document it found (ret.was), so   *)
(* that the claims about one call are state predicates.                    *)

\* the schedules of the drawn tasks: none, malformed, the instant 0 (written
\* in another offset) and the instant MaxTime; the clock reads 0..MaxTime
CallSchedules ==
    {None, Some(BadText), Some(DateTime(0, 1, TRUE, FALSE)),
     Some(DateTime(MaxTime, 0, TRUE, FALSE))}

\* the second task of a document is urgent and was completed with a message
CallTask(i, sched) ==
    IF i = 2
    THEN [uid |-> i, id |-> NewId(i), title |-> <<"a">>, status |-> "Completed",
          created_at |-> NowText(0), scheduled_at |-> sched,
          completed_at |-> Some(NowText(0)),
          completion_history |->
              <<[message |-> <<"m">>, completed_at |-> NowText(0)]>>,
          urgent |-> TRUE]
    ELSE [uid |-> i, id |-> NewId(i), title |-> <<"a">>, status |-> "Pending",
          created_at |-> NowText(0), scheduled_at |-> sched,
          completed_at |-> None, completion_history |-> <<>>, urgent |-> i > 2]

\* the drawn documents; in some the second task has the id of the first
\* (two Adds that read the same clock value leave such a document)
CallDocs ==
    {Doc(SCHEMA_VERSION,
         [i \in 1..n |-> [CallTask(i, f[i]) EXCEPT
                              !.id = IF dup /\ i = 2 THEN NewId(1) ELSE @]],
         focus) :
        n \in 0..MaxListLen, f \in [1..MaxListLen -> CallSchedules],
        focus \in {None} \cup {Some(NewId(i)) : i \in 1..MaxListLen},
        dup \in BOOLEAN}

\* what else may be at the path: nothing, bytes that are no document, and a
\* one-task document under every schema_version from 0 to one past the
\* current one, without focus, with a focus on its task and with a focus
\* on an id no task has
OddDocs ==
    {NoFile, Torn(0)}
    \cup {Doc(ver, <<CallTask(1, None)>>, focus) :
            ver \in 0..(SCHEMA_VERSION + 1),
            focus \in {None, Some(NewId(1)), Some(<<"nope">>)}}

\* documents one task longer, each task unscheduled or scheduled at time 0
\* (lists in which the focused task has more than one task before it), the
\* last task also with a schedule that does not parse
LongDocs ==
    {Doc(SCHEMA_VERSION, [i \in 1..(MaxListLen + 1) |-> CallTask(i, f[i])], focus) :
        f \in {g \in [1..(MaxListLen + 1) -> {None, Some(BadText),
                                             Some(DateTime(0, 1, TRUE, FALSE))}] :
                  \A i \in 1..MaxListLen : g[i] # Some(BadText)},
        focus \in {None} \cup {Some(NewId(i)) : i \in 1..(MaxListLen + 1)}}

InitCall ==
    /\ disk \in {d \in CallDocs : LoadState(d).err = NoErr} \cup OddDocs \cup LongDocs
    /\ now \in 0..MaxTime
    /\ nadds = 0
    /\ nsaves = 0
    /\ last = NoCall
    /\ ret = [op |-> "none"]
    /\ pc = [p \in Procs |-> "idle"]
    /\ pend = [p \in Procs |-> NoPend]

\* a behaviour is one call on a store that loads, or any number of calls in
\* a row on a document that load_state rejects
CanCall == IF ret.op = "none" THEN TRUE ELSE ret.rejected

\* the call op(id, arg) of handler outcome h under the local offset lo, with
\* its save; ret keeps the call, the file it found (was), whether load_state
\* rejected that file and whether the call is the first of the behaviour
Call(op, id, arg, lo, h) ==
    \E io \in Endings(h) :
          LET s == Outcome(disk, h, io) IN
          /\ disk' = s.disk
          /\ ret' = [op |-> op, id |-> id, arg |-> arg, lo |-> lo, io |-> io,
                     err |-> s.err, out |-> h.ret, was |-> disk,
                     rejected |-> LoadState(disk).err # NoErr,
                     first |-> ret.op = "none"]
          /\ UNCHANGED <<now, nadds, nsaves, last, pc, pend>>

CallSchedule ==
    /\ CanCall
    /\ \E id \in IdArgs(disk), dt \in DateTimeArgs :
        Call("schedule", id, dt, UTC, ScheduleTaskWithPath(disk, id, dt, now, UTC))

\* the datetimes a Reschedule is given: those of DateTimeArgs and one that
\* is after every instant of the clock
RescheduleArgs == DateTimeArgs \cup {DateTime(MaxTime + 1, 0, TRUE, FALSE)}

CallReschedule ==
    /\ CanCall
    /\ \E id \in IdArgs(disk), dt \in RescheduleArgs, lo \in LocalOffsets :
        Call("reschedule", id, dt, lo, RescheduleTaskWithPath(disk, id, dt, now, lo))

CallComplete ==
    /\ CanCall
    /\ \E id \in IdArgs(disk), message \in Messages :
        Call("complete", id, message, UTC, CompleteTaskWithPath(disk, id, message, now))

CallEdit ==
    /\ CanCall
    /\ \E id \in IdArgs(disk), new_title \in EditTitles :
        Call("edit", id, new_title, UTC, EditTaskWithPath(disk, id, new_title))

CallDelete ==
    /\ CanCall
    /\ \E id \in IdArgs(disk) : Call("delete", id, <<>>, UTC, DeleteTaskWithPath(disk, id))

CallSetFocus ==
    /\ CanCall
    /\ \E id \in IdArgs(disk) : Call("set_focus", id, <<>>, UTC, SetFocusWithPath(disk, id))

CallSetUrgent ==
    /\ CanCall
    /\ \E id \in IdArgs(disk), urgent \in BOOLEAN :
        Call("set_urgent", id, urgent, UTC, SetTaskUrgentWithPath(disk, id, urgent))

CallAdd ==
    /\ CanCall
    /\ \E title \in AddTitles, urgent \in BOOLEAN :
        Call("add", <<>>, [title |-> title, urgent |-> urgent], UTC,
             AddTaskWithPath(disk, title, urgent, now, MaxListLen + 2))

CallCompleteFocused ==
    /\ CanCall
    /\ \E message \in Messages :
        Call("complete_focused", <<>>, message, UTC,
             CompleteFocusedTaskWithPath(disk, message, now))

\* the queries: what a query returns is kept, wrapped as a handler outcome
CallLoad ==
    /\ CanCall
    /\ LET ld == LoadState(disk) IN
       Call("load", <<>>, <<>>, UTC, [Done(<<ld.state>>) EXCEPT !.err = ld.err])

CallGet ==
    /\ CanCall
    /\ \E id \in IdArgs(disk) : Call("get", id, <<>>, UTC, GetTaskByIdWithPath(disk, id))

CallListToday ==
    /\ CanCall
    /\ \E lo \in LocalOffsets : Call("list_today", <<>>, <<>>, lo, ListToday(disk, now, lo))

CallListBacklog ==
    /\ CanCall
    /\ \E lo \in LocalOffsets :
        Call("list_backlog", <<>>, <<>>, lo, ListBacklog(disk, now, lo))

CallOverdue ==
    /\ CanCall
    /\ \E i \in DOMAIN TasksOf(disk), lo \in LocalOffsets :
        LET od == TaskOverdue(TasksOf(disk)[i], lo, now) IN
        Call("task_overdue", TasksOf(disk)[i].id, i, lo,
             [Done(<<od.v>>) EXCEPT !.err = od.err])

CallNotify ==
    /\ CanCall
    /\ \E lo \in LocalOffsets, failing \in SUBSET (1..(MaxListLen + 1)) :
        LET h == NotifyOverdueOrUrgentWithPath(disk, now, lo, failing) IN
        Call("notify", <<>>, failing, lo,
             [err |-> h.err, save |-> h.save, state |-> h.state,
              ret |-> <<[tasks |-> h.ret, failures |-> h.failures,
                         calls |-> h.calls]>>])

NextCall ==
    \/ CallAdd
    \/ CallCompleteFocused
    \/ CallLoad
    \/ CallGet
    \/ CallListToday
    \/ CallListBacklog
    \/ CallOverdue
    \/ CallNotify
    \/ CallSchedule
    \/ CallReschedule
    \/ CallComplete
    \/ CallEdit
    \/ CallDelete
    \/ CallSetFocus
    \/ CallSetUrgent

SpecCall == InitCall /\ [][NextCall]_vars

----------------------------------------------------------------------------
(* The store on its own (SpecStore): one save_state or save_tasks on a     *)
(* drawn file, then a load_state of the same path.                         *)

\* json_store::save_tasks: the focus already stored is kept
SaveTasks(d, tasks, io) ==
    LET ld == LoadState(d)
        focused_task_id == IF d.kind # "none" THEN ld.state.focused_task_id ELSE None
    IN
    IF d.kind # "none" /\ ld.err # NoErr
    THEN [err |-> ld.err, disk |-> d]
    ELSE SaveState(d, TaskState(tasks, focused_task_id), io)

\* the task lists handed to the store
StoreTaskLists ==
    {[i \in 1..n |-> CallTask(i, f[i])] :
        n \in 0..MaxListLen,
        f \in [1..MaxListLen -> {None, Some(DateTime(0, 1, TRUE, FALSE))}]}

\* the states handed to save_state: as the handlers hand them over, with
\* no focus or with the focus on one of the tasks
StoreStates ==
    {st \in {TaskState(tasks, focus) :
                tasks \in StoreTaskLists,
                focus \in {None} \cup {Some(NewId(i)) : i \in 1..MaxListLen}} :
        \/ st.focused_task_id = None
        \/ st.focused_task_id.v \in Ids(st.tasks)}

\* what is at the path before the save
StoreDocs ==
    {NoFile, Torn(0)}
    \cup {Doc(ver, [i \in 1..n |-> CallTask(i, None)],
               IF focused THEN Some(NewId(n)) ELSE None) :
            ver \in {1, SCHEMA_VERSION, SCHEMA_VERSION + 1},
            n \in 1..MaxListLen,
            focused \in BOOLEAN}

NoLoad == [err |-> NoErr, state |-> EmptyState, done |-> FALSE]

InitStore ==
    /\ disk \in StoreDocs
    /\ now = 0
    /\ nadds = 0
    /\ nsaves = 0
    /\ last = NoCall
    /\ ret = [op |-> "none"]
    /\ pc = [p \in Procs |-> "idle"]
    /\ pend = [p \in Procs |-> NoPend]

\* save_state(path, &state)
StoreSaveState ==
    /\ ret.op = "none"
    /\ \E state \in StoreStates, io \in SaveOutcomes :
          LET s == SaveState(disk, state, io) IN
          /\ disk' = s.disk
          /\ ret' = [op |-> "save_state", state |-> state, io |-> io,
                     err |-> s.err, was |-> disk, loaded |-> NoLoad]
    /\ UNCHANGED <<now, nadds, nsaves, last, pc, pend>>

\* save_tasks(path, &tasks)
StoreSaveTasks ==
    /\ ret.op = "none"
    /\ \E tasks \in StoreTaskLists, io \in SaveOutcomes :
          LET s == SaveTasks(disk, tasks, io) IN
          /\ disk' = s.disk
          /\ ret' = [op |-> "save_tasks", state |-> TaskState(tasks, None), io |-> io,
                     err |-> s.err, was |-> disk, loaded |-> NoLoad]
    /\ UNCHANGED <<now, nadds, nsaves, last, pc, pend>>

\* load_state(path) after the save
StoreLoad ==
    /\ ret.op # "none"
    /\ ~ret.loaded.done
    /\ ret' = [ret EXCEPT !.loaded =
                  [err |-> LoadState(disk).err, state |-> LoadState(disk).state,
                   done |-> TRUE]]
    /\ UNCHANGED <<disk, now, nadds, nsaves, last, pc, pend>>

NextStore ==
    \/ StoreSaveState
    \/ StoreSaveTasks
    \/ StoreLoad

SpecStore == InitStore /\ [][NextStore]_vars

----------------------------------------------------------------------------
(* todo_cli main.rs: the aliases (SpecAlias).  An alias maps a name to a   *)
(* replacement text; the text is modelled as its words, a word as its      *)
(* characters without the quotes (t) and whether it is written in quotes.  *)
(* ret holds the run: the alias map, the argument list and where main is.  *)

MaxWords == 2
MaxArgs == 4

AliasNames == {"a", "b"}
Word(t, quoted) == [t |-> t, quoted |-> quoted]
Words == {Word("a", FALSE), Word("b", FALSE), Word("x", FALSE), Word("-v", FALSE),
          Word("a", TRUE)}

\* arg.starts_with('-')
StartsWithDash(arg) == arg = "-v"

\* parse_command_line of a replacement: the words, quotes removed
ParseCommandLine(replacement) == [i \in DOMAIN replacement |-> replacement[i].t]

\* expansion.split_whitespace().next(): the first word as written, quotes
\* included; no word gives ""
FirstToken(replacement) ==
    IF replacement = <<>> THEN Word("", FALSE) ELSE replacement[1]

\* first_token == name, and aliases.contains_key(first_token): a word
\* written in quotes is the name of no alias
TokenIs(first_token, name) == ~first_token.quoted /\ first_token.t = name
ContainsKey(aliases, first_token) ==
    ~first_token.quoted /\ first_token.t \in DOMAIN aliases

\* the first loop of validate_alias_definitions
EmptyExpansion(aliases) ==
    \E alias \in DOMAIN aliases : ParseCommandLine(aliases[alias]) = <<>>

\* the inner loop of validate_alias_definitions for one alias: TRUE when it
\* returns the cycle error or the expands-to-itself error
RECURSIVE CycleFrom(_, _, _)
CycleFrom(aliases, current, visited) ==
    IF current \in visited THEN TRUE
    ELSE IF ~(current \in DOMAIN aliases) THEN FALSE
    ELSE LET first_token == FirstToken(aliases[current]) IN
         IF first_token.t = "" THEN FALSE
         ELSE IF TokenIs(first_token, current) THEN TRUE
         ELSE IF ~ContainsKey(aliases, first_token) THEN FALSE
         ELSE CycleFrom(aliases, first_token.t, visited \cup {current})

\* validate_alias_definitions returns Ok
ValidateAliasDefinitions(aliases) ==
    /\ ~EmptyExpansion(aliases)
    /\ \A alias \in DOMAIN aliases : ~CycleFrom(aliases, alias, {})

\* args.iter().position(|arg| !arg.starts_with('-')): 0 when there is none
AliasIndex(args) ==
    IF \E i \in DOMAIN args : ~StartsWithDash(args[i])
    THEN CHOOSE i \in DOMAIN args :
            /\ ~StartsWithDash(args[i])
            /\ \A j \in 1..(i - 1) : StartsWithDash(args[j])
    ELSE 0

\* the loop of resolve_aliases breaks on these arguments
ResolveBreaks(args, aliases) ==
    IF AliasIndex(args) = 0 THEN TRUE
    ELSE ~(args[AliasIndex(args)] \in DOMAIN aliases)

\* one iteration of the loop of resolve_aliases that does not break
Resolved(args, aliases) ==
    LET alias_index == AliasIndex(args) IN
    SubSeq(args, 1, alias_index - 1)
        \o ParseCommandLine(aliases[args[alias_index]])
        \o SubSeq(args, alias_index + 1, Len(args))

\* what the loop reads of args: the arguments from the first one that is no
\* flag on (the flags before it are only copied)
Unread(args) ==
    IF AliasIndex(args) = 0 THEN <<>> ELSE SubSeq(args, AliasIndex(args), Len(args))

Replacements ==
    UNION {[1..n -> Words] : n \in 0..MaxWords}

AliasMaps ==
    UNION {[names -> Replacements] : names \in {{"a"}, {"a", "b"}}}

ArgLists == {<<"a">>, <<"-v", "b">>, <<"x", "a">>, <<"b", "a">>}

InitAlias ==
    /\ disk = NoFile
    /\ now = 0
    /\ nadds = 0
    /\ nsaves = 0
    /\ last = NoCall
    /\ ret \in {[op |-> "main", aliases |-> aliases, args |-> args, seen |-> {}] :
                  aliases \in AliasMaps, args \in ArgLists}
    /\ pc = [p \in Procs |-> "idle"]
    /\ pend = [p \in Procs |-> NoPend]

\* main: validate_alias_definitions, then exit(1) or resolve_aliases
Validate ==
    /\ ret.op = "main"
    /\ ret' = [ret EXCEPT !.op = IF ValidateAliasDefinitions(ret.aliases)
                                  THEN "resolve" ELSE "exit"]
    /\ UNCHANGED <<disk, now, nadds, nsaves, last, pc, pend>>

\* one iteration of the loop of resolve_aliases that replaces an alias; seen
\* keeps what the iterations so far started with.  The model follows the
\* loop until it is back at arguments it has started an iteration with
\* (from there it repeats) or the list is longer than MaxArgs.
Expand ==
    /\ ret.op = "resolve"
    /\ ~ResolveBreaks(ret.args, ret.aliases)
    /\ ~(Unread(ret.args) \in ret.seen)
    /\ Len(ret.args) <= MaxArgs
    /\ ret' = [ret EXCEPT !.args = Resolved(ret.args, ret.aliases),
                          !.seen = @ \cup {Unread(ret.args)}]
    /\ UNCHANGED <<disk, now, nadds, nsaves, last, pc, pend>>

\* the iteration that breaks: resolve_aliases returns Ok(args)
Break ==
    /\ ret.op = "resolve"
    /\ ResolveBreaks(ret.args, ret.aliases)
    /\ ret' = [ret EXCEPT !.op = "run"]
    /\ UNCHANGED <<disk, now, nadds, nsaves, last, pc, pend>>

NextAlias ==
    \/ Validate
    \/ Expand
    \/ Break

SpecAlias == InitAlias /\ [][NextAlias]_vars

----------------------------------------------------------------------------
(* Claims about the lists (SpecQuery).  They speak of the states after a   *)
(* list query: its clock reading is now, its offset ret.lo, and ret holds  *)
(* what it returned; the other list is taken under the same two.           *)

Listed == ret.op \in {"list_today", "list_backlog"}

\* the task is among the tasks a query returned
Returned(task, tasks) == \E j \in DOMAIN tasks : tasks[j].uid = task.uid

InToday(task) ==
    Returned(task, IF ret.op = "list_today" THEN ret.tasks
                   ELSE ListToday(disk, now, ret.lo).ret)

InBacklog(task) ==
    Returned(task, IF ret.op = "list_backlog" THEN ret.tasks
                   ELSE ListBacklog(disk, now, ret.lo).ret)

TodayOnly(task) == InToday(task) /\ ~InBacklog(task)
BacklogOnly(task) == ~InToday(task) /\ InBacklog(task)

AllParse(tasks) ==
    \A i \in DOMAIN tasks :
        tasks[i].scheduled_at.k = "some" => ParseRfc3339(tasks[i].scheduled_at.v).ok

\* C8: when every scheduled_at parses, under one clock reading and offset
\* the lists succeed and each task is in exactly one of ListToday and
\* ListBacklog.
C8_TodayBacklogPartition ==
    (Listed /\ AllParse(disk.tasks)) =>
        /\ ret.err = NoErr
        /\ ListToday(disk, now, ret.lo).err = NoErr
        /\ ListBacklog(disk, now, ret.lo).err = NoErr
        /\ \A i \in DOMAIN disk.tasks :
              InToday(disk.tasks[i]) <=> ~InBacklog(disk.tasks[i])

\* C8: ListToday returned one of two tasks, the other belongs to the backlog
C8_Witness ==
    /\ ret.op = "list_today" /\ ret.err = NoErr
    /\ Len(disk.tasks) = 2 /\ Len(ret.tasks) = 1
    /\ Len(ListBacklog(disk, now, ret.lo).ret) = 1

\* the instant at which the local calendar day of clk ends in the offset lo
EndOfLocalDay(clk, lo) == (LocalDate(clk, lo) + 1) * DayLen - lo

Overdue(task, clk, lo) ==
    LET od == TaskOverdue(task, lo, clk) IN od.err = NoErr /\ od.v

\* a Reschedule of the task of id is accepted
Reschedulable(d, id, clk, lo) ==
    \E dt \in DateTimeArgs : RescheduleTaskWithPath(d, id, dt, clk, lo).save

\* C10 (as claimed): an overdue task is returned by ListToday and not by
\* ListBacklog, and a task that Reschedule accepts is one ListToday returns.
C10_OverdueUnderToday ==
    Listed =>
        /\ \A i \in DOMAIN disk.tasks :
              Overdue(disk.tasks[i], now, ret.lo) => TodayOnly(disk.tasks[i])
        /\ \A id \in IdArgs(disk) :
              Reschedulable(disk, id, now, ret.lo) =>
                  InToday(disk.tasks[Position(disk.tasks, Trim(id))])

\* C10 (amended): when the list succeeds (every scheduled_at of the store
\* parses), an overdue task is returned by ListToday and not by ListBacklog,
\* and a task that Reschedule accepts is one ListToday returns.
C10_OverdueUnderTodayWhenListed ==
    (Listed /\ ret.err = NoErr) =>
        /\ \A i \in DOMAIN disk.tasks :
              Overdue(disk.tasks[i], now, ret.lo) => TodayOnly(disk.tasks[i])
        /\ \A id \in IdArgs(disk) :
              Reschedulable(disk, id, now, ret.lo) =>
                  InToday(disk.tasks[Position(disk.tasks, Trim(id))])

\* C10: ListToday returned an overdue task, one that Reschedule accepts
C10_Witness ==
    /\ ret.op = "list_today" /\ ret.err = NoErr
    /\ \E j \in DOMAIN ret.tasks :
          /\ Overdue(ret.tasks[j], now, ret.lo)
          /\ Reschedulable(disk, ret.tasks[j].id, now, ret.lo)

----------------------------------------------------------------------------
(* Claims about task_overdue and the schedule calls (SpecQuery).  They     *)
(* speak of the states after the call: ret holds its arguments, what it    *)
(* returned and the document it found (ret.was).                           *)

\* C11: task_overdue answers false for a task with no scheduled_at; for a
\* task with a scheduled_at it answers true exactly when the text parses to
\* an instant strictly before now (equal to now is not overdue), under
\* every local offset and whatever the status, urgent flag or focus.
C11_OverdueStrict ==
    ret.op = "task_overdue" =>
        LET sched == ret.task.scheduled_at
            overdue == ret.err = NoErr /\ ret.v
        IN
        IF sched.k = "none" THEN ret.err = NoErr /\ ~ret.v
        ELSE /\ ParseRfc3339(sched.v).ok => ret.err = NoErr
             /\ overdue <=> (ParseRfc3339(sched.v).ok /\ ParseRfc3339(sched.v).t < now)

\* C11: task_overdue answered false for a completed, urgent, focused task
\* scheduled exactly now, written in another offset than the local one
C11_Witness ==
    /\ ret.op = "task_overdue" /\ ret.err = NoErr /\ ~ret.v
    /\ ret.task.status = "Completed" /\ ret.task.urgent
    /\ disk.focused_task_id = Some(ret.task.id)
    /\ ret.task.scheduled_at.k = "some"
    /\ ParseRfc3339(ret.task.scheduled_at.v).ok
    /\ ParseRfc3339(ret.task.scheduled_at.v).t = now
    /\ ParseRfc3339(ret.task.scheduled_at.v).off # ret.lo

\* the document d, written anew, with the scheduled_at of its i-th task set
\* to the normalized datetime, every other field, task and the focus as
\* they were
Scheduled(d, i, datetime) ==
    [d EXCEPT !.ver = SCHEMA_VERSION,
              !.tasks[i].scheduled_at =
                  Some(FormatRfc3339(ParseRfc3339(TrimDateTime(datetime))))]

\* the call in ret had a parseable datetime and an id that matches a task
\* of the document it found
MatchedCall ==
    /\ ParseRfc3339(TrimDateTime(ret.arg)).ok
    /\ Position(TasksOf(ret.was), Trim(ret.id)) # 0

\* C12: Reschedule with a parseable datetime on a matched task fails with
\* InvalidInput "task is not scheduled" when the task has no scheduled_at,
\* otherwise with InvalidInput "task is not overdue" when its schedule is
\* not strictly before now, and both leave the document as it was; when the
\* schedule is strictly before now and the save succeeds, the document is
\* the one found with that scheduled_at replaced by the normalized datetime.
C12_ReschedulePreconditions ==
    (ret.op = "reschedule" /\ MatchedCall) =>
        LET i == Position(ret.was.tasks, Trim(ret.id))
            cur == ret.was.tasks[i].scheduled_at
        IN
        IF cur.k = "none"
        THEN ret.err = InvalidInput("task is not scheduled") /\ disk = ret.was
        ELSE ParseRfc3339(cur.v).ok =>
            IF ~(ParseRfc3339(cur.v).t < now)
            THEN ret.err = InvalidInput("task is not overdue") /\ disk = ret.was
            ELSE ret.io = "ok" =>
                    /\ ret.err = NoErr
                    /\ disk = Scheduled(ret.was, i, ret.arg)
                    /\ ret.out = <<disk.tasks[i]>>

\* C12: a Reschedule was refused as not overdue for a task scheduled
\* exactly now, and the document is what it was
C12_Witness ==
    /\ ret.op = "reschedule" /\ MatchedCall
    /\ ret.err = InvalidInput("task is not overdue") /\ disk = ret.was
    /\ LET i == Position(ret.was.tasks, Trim(ret.id)) IN
          ParseRfc3339(ret.was.tasks[i].scheduled_at.v).t = now

\* C13: Schedule with a parseable datetime on a matched task, when the save
\* succeeds, returns the task and leaves the document found with that
\* task's scheduled_at set to the normalized datetime and nothing else
\* changed, whatever the schedule before and the status; the same Schedule
\* applied to the result, at any clock reading, leaves it as it is.
C13_ScheduleOverwrites ==
    (ret.op = "schedule" /\ MatchedCall /\ ret.io = "ok") =>
        LET i == Position(ret.was.tasks, Trim(ret.id)) IN
        /\ ret.err = NoErr
        /\ disk = Scheduled(ret.was, i, ret.arg)
        /\ ret.out = <<disk.tasks[i]>>
        /\ \A clk \in 0..MaxTime :
              LET again == ScheduleTaskWithPath(disk, ret.id, ret.arg, clk, UTC) IN
              again.save /\ Outcome(disk, again, "ok").disk = disk

\* C13: a Schedule went through on a completed task whose schedule was
\* malformed, in a document whose focus is on another task
C13_Witness ==
    /\ ret.op = "schedule" /\ MatchedCall /\ ret.io = "ok" /\ ret.err = NoErr
    /\ LET i == Position(ret.was.tasks, Trim(ret.id)) IN
          /\ ret.was.tasks[i].status = "Completed"
          /\ ret.was.tasks[i].scheduled_at = Some(BadText)
          /\ disk.focused_task_id.k = "some"
          /\ disk.focused_task_id.v # disk.tasks[i].id
          /\ disk.tasks[i].scheduled_at.v.k = "dt"

----------------------------------------------------------------------------
(* Claims about ids, focus and completion over sequences of calls (Spec).  *)

\* a task as the document holds it (uid is no field of it)
Fields(task) == [task EXCEPT !.uid = 0]

\* the step is a call of Add that wrote its document
AddStep == nsaves' = nsaves + 1 /\ last'.op = "add" /\ disk'.kind = "doc"

\* C14: an Add that writes its document leaves the tasks and the focus it
\* loaded as they were and appends one task with the trimmed title, status
\* Pending, no scheduled_at, no completed_at and an empty history; a Get of
\* the id of that task on the new document returns it, ListBacklog
\* contains it and ListToday does not; and an Add with a blank title fails
\* with InvalidInput without saving.
C14_AddAppendsOne ==
    /\ [](\A urgent \in BOOLEAN :
            LET h == AddTaskWithPath(disk, <<" ">>, urgent, now, nadds + 1) IN
            h.err.kind = "InvalidInput" /\ ~h.save)
    /\ [][AddStep =>
            LET old == LoadState(disk).state
                task == disk'.tasks[Len(disk'.tasks)]
            IN
            /\ disk'.tasks = Append(old.tasks, task)
            /\ disk'.focused_task_id = old.focused_task_id
            /\ task.title = <<"a">> /\ task.status = "Pending"
            /\ task.scheduled_at = None /\ task.completed_at = None
            /\ task.completion_history = <<>>
            /\ LET got == GetTaskByIdWithPath(disk', task.id) IN
                  /\ got.err = NoErr /\ Len(got.ret) = 1
                  /\ Fields(got.ret[1]) = Fields(task)
            /\ \A lo \in LocalOffsets :
                  /\ Returned(task, ListBacklog(disk', now', lo).ret)
                  /\ ~Returned(task, ListToday(disk', now', lo).ret)]_vars

\* the tasks of the document were all added by calls of this behaviour
AllAdded(d) == \A i \in DOMAIN d.tasks : d.tasks[i].uid >= 1

\* C15: in a document whose tasks were all added since the store was empty,
\* the ids are pairwise distinct, also when two Adds read the same clock
\* value.
C15_IdsUnique ==
    (disk.kind = "doc" /\ AllAdded(disk)) =>
        \A i, j \in DOMAIN disk.tasks :
            disk.tasks[i].id = disk.tasks[j].id => i = j

\* C16: in a document whose tasks were all added since the store was empty,
\* the task focused_task_id refers to, when there is a focus, is Pending
\* (also after Complete followed by SetFocus on the same id).
C16_FocusedIsPending ==
    (disk.kind = "doc" /\ AllAdded(disk) /\ disk.focused_task_id.k = "some") =>
        LET i == Position(disk.tasks, disk.focused_task_id.v) IN
        i # 0 /\ disk.tasks[i].status = "Pending"

\* C17: on the empty store and on a document whose tasks were all added
\* since the store was empty, CompleteFocused(m) gives for every message
\* what Complete(f, m) gives when the focus is f (the same returned task or
\* error, the same state saved) and fails with InvalidInput "no focused
\* task" without saving when there is no focus.
C17_CompleteFocusedAsComplete ==
    (disk.kind = "none" \/ (disk.kind = "doc" /\ AllAdded(disk))) =>
        LET f == LoadState(disk).state.focused_task_id IN
        \A m \in Messages :
            CompleteFocusedTaskWithPath(disk, m, now) =
                IF f.k = "none" THEN Fail(InvalidInput("no focused task"))
                ELSE CompleteTaskWithPath(disk, f.v, m, now)

\* C18: a task added since the store was empty has a completed_at exactly
\* when its status is Completed, and a completed_at that a task has is the
\* same in the next document that holds the task (uid names the task), so
\* in every later one.
C18_CompletedAtSetOnce ==
    /\ [](disk.kind = "doc" =>
            \A i \in DOMAIN disk.tasks :
                disk.tasks[i].uid >= 1 =>
                    (disk.tasks[i].completed_at.k = "some"
                     <=> disk.tasks[i].status = "Completed"))
    /\ [][(disk.kind = "doc" /\ disk'.kind = "doc") =>
            \A i \in DOMAIN disk.tasks, j \in DOMAIN disk'.tasks :
                (disk.tasks[i].uid = disk'.tasks[j].uid
                 /\ disk.tasks[i].completed_at.k = "some")
                => disk'.tasks[j].completed_at = disk.tasks[i].completed_at]_vars

\* C18: a task that was added and completed at clock 0 has been edited, and
\* at a later clock reading its completed_at is still that of clock 0
C18_Witness ==
    /\ last.op = "edit" /\ disk.kind = "doc" /\ now > 0
    /\ \E i \in DOMAIN disk.tasks :
          /\ disk.tasks[i].uid >= 1
          /\ disk.tasks[i].title = <<"b">>
          /\ disk.tasks[i].status = "Completed"
          /\ disk.tasks[i].completed_at = Some(NowText(0))

\* C20: a Complete that succeeds found its task Pending, returns it, and
\* leaves the document found with that task's status Completed and its
\* completed_at the clock reading, its id, title, created_at, scheduled_at
\* and urgent as they were, every other task as it was, and the focus
\* cleared when it was the trimmed id and kept otherwise.
C20_CompleteEffect ==
    (ret.op = "complete" /\ ret.err = NoErr) =>
        LET i == Position(ret.was.tasks, Trim(ret.id)) IN
        /\ i # 0 /\ ret.was.tasks[i].status = "Pending"
        /\ disk.kind = "doc"
        /\ disk.tasks =
              [ret.was.tasks EXCEPT ![i] =
                  [@ EXCEPT !.status = "Completed",
                            !.completed_at = Some(NowText(now)),
                            !.completion_history = disk.tasks[i].completion_history]]
        /\ disk.focused_task_id =
              IF ret.was.focused_task_id = Some(Trim(ret.id)) THEN None
              ELSE ret.was.focused_task_id
        /\ ret.out = <<disk.tasks[i]>>

\* C20: a Complete went through on a scheduled task while the focus was on
\* another task, and the focus is still there
C20_Witness ==
    /\ ret.op = "complete" /\ ret.err = NoErr
    /\ ret.was.focused_task_id.k = "some"
    /\ ret.was.focused_task_id.v # Trim(ret.id)
    /\ disk.focused_task_id = ret.was.focused_task_id
    /\ LET i == Position(ret.was.tasks, Trim(ret.id)) IN
          /\ disk.tasks[i].scheduled_at.k = "some"
          /\ disk.tasks[i].status = "Completed"

\* every task of d that is still in d2 has the completion_history it had
HistoryKept(d, d2) ==
    \A i \in DOMAIN TasksOf(d), j \in DOMAIN TasksOf(d2) :
        TasksOf(d)[i].uid = TasksOf(d2)[j].uid =>
            TasksOf(d2)[j].completion_history = TasksOf(d)[i].completion_history

\* what a completion of the i-th task of d with the message, returning err,
\* may do to the histories on the way to d2: when it succeeds with a
\* message, append to that task's history the trimmed message with the
\* task's completed_at; otherwise nothing
CompletionHistory(d, d2, i, message, err) ==
    IF err = NoErr /\ message.k = "some"
    THEN /\ d2.kind = "doc"
         /\ \A k \in DOMAIN TasksOf(d) :
               d2.tasks[k].completion_history =
                   IF k = i
                   THEN Append(TasksOf(d)[k].completion_history,
                               [message |-> Trim(message.v),
                                completed_at |-> d2.tasks[k].completed_at.v])
                   ELSE TasksOf(d)[k].completion_history
    ELSE HistoryKept(d, d2)

\* C19: over every step that writes the file, the completion_history of a
\* task changes only by a Complete or CompleteFocused that succeeds with a
\* non-blank message, which appends one entry (the trimmed message, the
\* task's completed_at) at the end; a completion without a message, every
\* other operation and every call that returns an error leave it as it was.
C19_HistoryAppendOnly ==
    [][nsaves' = nsaves + 1 =>
        /\ last'.op \notin {"complete", "complete_focused"} =>
              HistoryKept(disk, disk')
        /\ last'.op = "complete" =>
              \A id \in IdArgs(disk), message \in Messages, io \in SaveOutcomes :
                  LET h == CompleteTaskWithPath(disk, id, message, now)
                      o == Outcome(disk, h, io)
                  IN (h.save /\ io # "mkdir" /\ o.disk = disk') =>
                        CompletionHistory(disk, disk',
                            Position(TasksOf(disk), Trim(id)), message, o.err)
        /\ last'.op = "complete_focused" =>
              \A message \in Messages, io \in SaveOutcomes :
                  LET h == CompleteFocusedTaskWithPath(disk, message, now)
                      o == Outcome(disk, h, io)
                  IN (h.save /\ io # "mkdir" /\ o.disk = disk') =>
                        CompletionHistory(disk, disk',
                            Position(TasksOf(disk),
                                     LoadState(disk).state.focused_task_id.v),
                            message, o.err)]_vars

----------------------------------------------------------------------------
(* Claims about the effect of one call (Spec for what follows a sequence   *)
(* of calls, SpecCall for one call on a drawn document).                   *)

\* C21: a Delete that succeeds returns the removed task and leaves the
\* loaded list without it, the others in their order, the focus cleared
\* exactly when it was the id of the removed task, and a Get of the id
\* afterwards fails with InvalidInput; on a loadable store a Delete with a
\* blank or unknown id fails with InvalidInput without saving.
C21_DeleteRemovesOne ==
    /\ [](LoadState(disk).err = NoErr =>
            \A id \in {<<" ">>, <<"nope">>} :
                LET h == DeleteTaskWithPath(disk, id) IN
                h.err.kind = "InvalidInput" /\ ~h.save)
    /\ [][(nsaves' = nsaves + 1 /\ last'.op = "delete") =>
            \A id \in IdArgs(disk), io \in SaveOutcomes :
                LET h == DeleteTaskWithPath(disk, id)
                    o == Outcome(disk, h, io)
                    i == Position(TasksOf(disk), Trim(id))
                    focus == LoadState(disk).state.focused_task_id
                IN (h.save /\ io # "mkdir" /\ o.disk = disk' /\ o.err = NoErr) =>
                    /\ h.ret = <<TasksOf(disk)[i]>>
                    /\ disk'.tasks = RemoveAt(TasksOf(disk), i)
                    /\ disk'.focused_task_id =
                          IF focus = Some(TasksOf(disk)[i].id) THEN None ELSE focus
                    /\ GetTaskByIdWithPath(disk', id).err.kind = "InvalidInput"]_vars

\* the index in the document the call of ret found of the task its id matches
Matched == Position(TasksOf(ret.was), Trim(ret.id))

\* C22: an Edit that succeeds returns the task and leaves the document found
\* with that task's title the trimmed new title, every other field of it
\* and every other task as they were, and the focus cleared when it was the
\* id of the edited task and as it was otherwise.
C22_EditTitleOnly ==
    (ret.op = "edit" /\ ret.err = NoErr) =>
        /\ Matched # 0 /\ disk.kind = "doc"
        /\ disk.tasks = [ret.was.tasks EXCEPT ![Matched].title = Trim(ret.arg)]
        /\ disk.focused_task_id =
              IF ret.was.focused_task_id = Some(ret.was.tasks[Matched].id)
              THEN None ELSE ret.was.focused_task_id
        /\ ret.out = <<disk.tasks[Matched]>>

\* C22: an Edit went through on the focused task, a completed one with a
\* schedule and a history, and the focus is gone
C22_Witness ==
    /\ ret.op = "edit" /\ ret.err = NoErr
    /\ ret.was.focused_task_id = Some(ret.was.tasks[Matched].id)
    /\ disk.focused_task_id = None
    /\ disk.tasks[Matched].title = <<"b">>
    /\ disk.tasks[Matched].status = "Completed"
    /\ disk.tasks[Matched].scheduled_at.k = "some"
    /\ disk.tasks[Matched].completion_history # <<>>

\* C23: on a store that loads, a SetFocus that succeeds returns the matched
\* task and leaves the document found with the focus on the id of that task
\* and the tasks as they were; a SetFocus with a blank or unknown id fails
\* with InvalidInput and leaves the store, its focus included, as it was.
C23_SetFocusOnlyFocus ==
    (ret.op = "set_focus" /\ LoadState(ret.was).err = NoErr) =>
        IF Matched = 0
        THEN ret.err.kind = "InvalidInput" /\ disk = ret.was
        ELSE ret.err = NoErr =>
                /\ disk.kind = "doc"
                /\ disk.tasks = ret.was.tasks
                /\ disk.focused_task_id = Some(ret.was.tasks[Matched].id)
                /\ ret.out = <<ret.was.tasks[Matched]>>

\* C23: a SetFocus with a padded id moved the focus from another task
C23_Witness ==
    /\ ret.op = "set_focus" /\ ret.err = NoErr /\ Matched # 0
    /\ ret.id # Trim(ret.id)
    /\ ret.was.focused_task_id.k = "some"
    /\ ret.was.focused_task_id # disk.focused_task_id
    /\ disk.focused_task_id = Some(Trim(ret.id))

\* C24: a SetUrgent that succeeds returns the task and leaves the document
\* found with that task's urgent the value given, whatever it was, and
\* nothing else changed; the same call on the result leaves it as it is,
\* and SetUrgent(id, false) after a SetUrgent(id, true) on a task that was
\* not urgent gives back the document found.
C24_SetUrgentExact ==
    (ret.op = "set_urgent" /\ ret.err = NoErr) =>
        /\ Matched # 0 /\ disk.kind = "doc"
        /\ disk.tasks = [ret.was.tasks EXCEPT ![Matched].urgent = ret.arg]
        /\ disk.focused_task_id = ret.was.focused_task_id
        /\ ret.out = <<disk.tasks[Matched]>>
        /\ LET again == SetTaskUrgentWithPath(disk, ret.id, ret.arg) IN
              again.save /\ Outcome(disk, again, "ok").disk = disk
        /\ (ret.arg /\ ~ret.was.tasks[Matched].urgent) =>
              LET back == SetTaskUrgentWithPath(disk, ret.id, FALSE) IN
              /\ back.save
              /\ Outcome(disk, back, "ok").disk = StoredTasks(LoadState(ret.was).state)

\* C24: a SetUrgent(id, true) went through on a pending task that was not
\* urgent, in a document with a focus
C24_Witness ==
    /\ ret.op = "set_urgent" /\ ret.err = NoErr /\ ret.arg
    /\ ~ret.was.tasks[Matched].urgent
    /\ disk.tasks[Matched].urgent
    /\ disk.tasks[Matched].scheduled_at.k = "some"
    /\ disk.focused_task_id.k = "some"

----------------------------------------------------------------------------
(* Claims about the queries and about what load_state accepts (SpecCall).  *)

\* the calls that only read
Queries == {"get", "list_today", "list_backlog", "task_overdue", "notify"}

\* C25: get, list_today, list_backlog, task_overdue and the notification
\* pass never write: whether the call succeeded or failed, the file after it
\* is the file before it, schema_version included, and no file stays no file.
C25_QueriesPure ==
    ret.op \in Queries => disk = ret.was

\* C25 witness: a list_today that succeeded on a document of an older schema
\* version, which is still that document.
C25_Witness ==
    /\ ret.op = "list_today" /\ ret.err = NoErr
    /\ ret.was.kind = "doc" /\ ret.was.ver < SCHEMA_VERSION
    /\ disk = ret.was

\* the today set of the document a list_today found, in stored order: the
\* tasks whose schedule falls on the local day of the call or before it
TodaySet ==
    LET tasks == TasksOf(ret.was) IN
    SelectSeq(tasks, LAMBDA task :
        /\ task.scheduled_at.k = "some"
        /\ LocalDate(ParseRfc3339(task.scheduled_at.v).t, ret.lo)
               <= LocalDate(now, ret.lo))

\* where the task x stands in the sequence s
IndexIn(s, x) == CHOOSE i \in DOMAIN s : s[i] = x

\* the focus that load_state finds in the file the call found
FocusWas == LoadState(ret.was).state.focused_task_id

\* the focused id is the id of a task of the today set
FocusInToday ==
    /\ FocusWas.k = "some"
    /\ \E i \in DOMAIN TodaySet : TodaySet[i].id = FocusWas.v

\* C26: a list_today that succeeds returns the tasks of the today set, each
\* once; when a task of the today set carries the focused id, the first such
\* task comes first and the others follow in their stored relative order;
\* otherwise the result is the today set in stored order; the stored
\* document is as it was.
C26_ListTodayPromotes ==
    (ret.op = "list_today" /\ ret.err = NoErr) =>
        /\ Len(ret.out) = Len(TodaySet)
        /\ \A i \in DOMAIN TodaySet : \E j \in DOMAIN ret.out : ret.out[j] = TodaySet[i]
        /\ FocusInToday =>
               /\ ret.out[1].id = FocusWas.v
               /\ \A i \in 1..(IndexIn(TodaySet, ret.out[1]) - 1) :
                      TodaySet[i].id # FocusWas.v
               /\ \A a, b \in 2..Len(ret.out) :
                      a < b => IndexIn(TodaySet, ret.out[a]) < IndexIn(TodaySet, ret.out[b])
        /\ ~FocusInToday => ret.out = TodaySet
        /\ disk = ret.was

\* C26 witness: a list_today moved the focused task, third of three today
\* tasks in the document, to the front, the two others behind it in their
\* stored order.
C26_Witness ==
    /\ ret.op = "list_today" /\ ret.err = NoErr /\ ret.was.kind = "doc"
    /\ FocusInToday
    /\ Len(TodaySet) = 3
    /\ ret.out = <<TodaySet[3], TodaySet[1], TodaySet[2]>>
    /\ disk = ret.was

\* the positions of the tasks the call found with a scheduled_at that does
\* not parse
Malformed ==
    {i \in DOMAIN TasksOf(ret.was) :
        /\ TasksOf(ret.was)[i].scheduled_at.k = "some"
        /\ ~ParseRfc3339(TasksOf(ret.was)[i].scheduled_at.v).ok}

\* C27: on a store that loads, list_today and list_backlog fail with
\* InvalidData and return no task when some task has a scheduled_at that
\* does not parse, wherever it stands and whatever the other tasks are; and
\* they fail only then, so tasks without scheduled_at never cause the error.
C27_MalformedBlocksLists ==
    (ret.op \in {"list_today", "list_backlog"} /\ ~ret.rejected) =>
        /\ Malformed # {} => (ret.err.kind = "InvalidData" /\ ret.out = <<>>)
        /\ Malformed = {} => ret.err = NoErr

\* C27 witness: a list_backlog failed with InvalidData on a document whose
\* first task is unscheduled (a backlog task) and whose second task has the
\* malformed schedule.
C27_Witness ==
    /\ ret.op = "list_backlog" /\ ~ret.rejected
    /\ ret.err.kind = "InvalidData" /\ ret.out = <<>>
    /\ Malformed = {2}
    /\ ret.was.tasks[1].scheduled_at = None

\* C28: load_state of a document whose schema_version is one of 1..current
\* and whose focus, if any, is the id of one of its tasks returns its tasks
\* and focus; of a document with version 0 or above current it fails with
\* InvalidData; of a missing file it returns the empty state without error.
C28_LoadVersions ==
    ret.op = "load" =>
        /\ ret.was.kind = "none" =>
               (ret.err = NoErr /\ ret.out = <<TaskState(<<>>, None)>>)
        /\ ret.was.kind = "doc" =>
               IF ret.was.ver >= 1 /\ ret.was.ver <= SCHEMA_VERSION
               THEN (\/ ret.was.focused_task_id = None
                     \/ \E i \in DOMAIN ret.was.tasks :
                           ret.was.focused_task_id = Some(ret.was.tasks[i].id))
                    => /\ ret.err = NoErr
                       /\ ret.out = <<TaskState(ret.was.tasks, ret.was.focused_task_id)>>
               ELSE ret.err.kind = "InvalidData"

\* C28 witness: load_state returned the task and the focus of a document
\* of schema_version 1, below the current version.
C28_Witness ==
    /\ ret.op = "load" /\ ret.err = NoErr
    /\ ret.was.kind = "doc" /\ ret.was.ver = 1 /\ ret.was.ver < SCHEMA_VERSION
    /\ ret.was.focused_task_id.k = "some"
    /\ ret.out = <<TaskState(ret.was.tasks, ret.was.focused_task_id)>>

\* C29: a call that finds a document load_state rejects (a torn file, a
\* schema_version out of range, a focus on an id no task has) fails and
\* leaves the file as it was, whichever call it is and however many calls
\* went before it on that document.
C29_CorruptNeverRepaired ==
    (ret.op # "none" /\ ret.rejected) => (ret.err # NoErr /\ disk = ret.was)

\* C29 witness: a delete of the id of the one task of a document whose focus
\* names no task, made after an earlier call on that document, failed with
\* InvalidData and left the document as it was.
C29_Witness ==
    /\ ret.op = "delete" /\ ret.rejected /\ ~ret.first
    /\ ret.was.kind = "doc" /\ ret.was.ver = SCHEMA_VERSION
    /\ ret.id = ret.was.tasks[1].id
    /\ ret.err.kind = "InvalidData"
    /\ disk = ret.was

(* A claim about the schema version over sequences of calls (Spec).       *)

\* C30: over any sequence of calls, a save that writes a document writes it
\* with the current schema_version, whatever version the file had; the
\* version of the document never decreases from one step to the next; and
\* once a call has written, the document carries the current version.  (A
\* file that fs::write left truncated is no document and has no version.)
C30_VersionOnlyUp ==
    /\ []((last # NoCall /\ disk.kind = "doc") => disk.ver = SCHEMA_VERSION)
    /\ [][(nsaves' = nsaves + 1 /\ disk'.kind = "doc")
             => disk'.ver = SCHEMA_VERSION]_vars
    /\ [][(disk.kind = "doc" /\ disk'.kind = "doc") => disk'.ver >= disk.ver]_vars

\* C30 witness: the document that started at schema_version 1 has been
\* written by a call and now carries the current version, its two tasks
\* still in it.
C30_Witness ==
    /\ last # NoCall
    /\ disk.kind = "doc" /\ disk.ver = SCHEMA_VERSION /\ LegacyDoc.ver < SCHEMA_VERSION
    /\ Len(disk.tasks) >= 2
    /\ disk.tasks[1].id = LegacyDoc.tasks[1].id
    /\ disk.tasks[2].id = LegacyDoc.tasks[2].id

----------------------------------------------------------------------------
(* Claims about the store on its own (SpecStore).                          *)

\* the focus of the state is absent or the id of one of its tasks
ValidFocus(state) ==
    \/ state.focused_task_id = None
    \/ \E i \in DOMAIN state.tasks : state.focused_task_id = Some(state.tasks[i].id)

C38_SavedLoads ==
    (ret.op \in {"save_state", "save_tasks"} /\ ret.err = NoErr /\ ret.loaded.done) =>
        ret.loaded.err = NoErr

----------------------------------------------------------------------------
(* Claims about the notification pass (SpecCall).  ret.arg is the set of   *)
(* tasks for which the notifier fails, ret.out[1] the outcome with the     *)
(* notifier's invocations in ret.out[1].calls.                             *)

\* a task qualifies for the pass at the clock reading now: Pending, and
\* urgent or scheduled at an instant before now
Qualifies(task) ==
    /\ task.status = "Pending"
    /\ \/ task.urgent
       \/ /\ task.scheduled_at.k = "some"
          /\ ParseRfc3339(task.scheduled_at.v).t < now

\* C32: in a pass that returns Ok the notifier is invoked for the tasks that
\* are Pending and overdue or urgent, once each and in stored order, and for
\* no other task: not for a Completed one, urgent or overdue as it may be,
\* nor for a Pending one that is neither.
C32_NotifySelection ==
    (ret.op = "notify" /\ ret.err = NoErr) =>
        ret.out[1].calls = SelectSeq(TasksOf(ret.was), Qualifies)

\* C32 witness: a pass over three tasks invoked the notifier for the overdue
\* first one and the urgent, unscheduled third one, in that order, and not
\* for the Completed second one, which is urgent and scheduled in the past.
C32_Witness ==
    /\ ret.op = "notify" /\ ret.err = NoErr
    /\ Len(TasksOf(ret.was)) = 3
    /\ TasksOf(ret.was)[2].status = "Completed" /\ TasksOf(ret.was)[2].urgent
    /\ TaskOverdue(TasksOf(ret.was)[2], ret.lo, now).v
    /\ TaskOverdue(TasksOf(ret.was)[1], ret.lo, now).v
    /\ TasksOf(ret.was)[3].scheduled_at = None
    /\ ret.out[1].calls = <<TasksOf(ret.was)[1], TasksOf(ret.was)[3]>>

\* some Pending task the pass found has a scheduled_at that does not parse
PendingMalformed ==
    \E i \in Malformed : TasksOf(ret.was)[i].status = "Pending"

\* the tasks of the sequence q the notifier fails for (or not)
Delivered(q) == SelectSeq(q, LAMBDA task : ~(task.uid \in ret.arg))
Undelivered(q) == SelectSeq(q, LAMBDA task : task.uid \in ret.arg)

\* C33: on a store that loads and has no Pending task with a malformed
\* schedule, the pass returns Ok whatever tasks the notifier fails for; the
\* notifier is still invoked for every qualifying task, those stored after
\* a failure included; the outcome's tasks are the qualifying tasks whose
\* delivery succeeded and its failures name, with the notifier's error, the
\* qualifying tasks whose delivery failed, so each is in exactly one list.
C33_FailureNotFatal ==
    (ret.op = "notify" /\ ~ret.rejected /\ ~PendingMalformed) =>
        LET q == SelectSeq(TasksOf(ret.was), Qualifies) IN
        /\ ret.err = NoErr
        /\ ret.out[1].calls = q
        /\ ret.out[1].tasks = Delivered(q)
        /\ ret.out[1].failures =
               [i \in 1..Len(Undelivered(q)) |->
                   [task_id |-> Undelivered(q)[i].id, error |-> "notify"]]

\* C33 witness: the notifier failed for the first task, overdue, and was
\* still invoked for the third, urgent; the pass returned Ok with the third
\* task in tasks and the id of the first in failures.
C33_Witness ==
    /\ ret.op = "notify" /\ ret.err = NoErr /\ ret.arg = {1}
    /\ Len(TasksOf(ret.was)) = 3
    /\ ret.out[1].calls = <<TasksOf(ret.was)[1], TasksOf(ret.was)[3]>>
    /\ ret.out[1].tasks = <<TasksOf(ret.was)[3]>>
    /\ ret.out[1].failures =
           <<[task_id |-> TasksOf(ret.was)[1].id, error |-> "notify"]>>

\* the position of the first Pending task with a malformed schedule
FirstPendingMalformed ==
    CHOOSE i \in Malformed :
        /\ TasksOf(ret.was)[i].status = "Pending"
        /\ \A j \in Malformed : TasksOf(ret.was)[j].status = "Pending" => i <= j

\* C39: on a store that loads, a pass that meets a Pending task whose
\* scheduled_at does not parse returns InvalidData and no outcome; the
\* notifier has then been invoked for the qualifying tasks stored before
\* that task, each once and in order, and for no task stored after it.  A
\* malformed scheduled_at on Completed tasks only does not abort the pass.
C39_MalformedAbortsPass ==
    (ret.op = "notify" /\ ~ret.rejected) =>
        IF PendingMalformed
        THEN /\ ret.err.kind = "InvalidData"
             /\ ret.out[1].tasks = <<>> /\ ret.out[1].failures = <<>>
             /\ ret.out[1].calls =
                    SelectSeq(SubSeq(TasksOf(ret.was), 1, FirstPendingMalformed - 1),
                              Qualifies)
        ELSE ret.err = NoErr

\* C39 witness: the third task, Pending, has the malformed schedule; the
\* pass returned InvalidData after it invoked the notifier for the overdue
\* first task.
C39_Witness ==
    /\ ret.op = "notify" /\ ret.err.kind = "InvalidData" /\ ~ret.rejected
    /\ Malformed = {3}
    /\ ret.out[1].calls = <<TasksOf(ret.was)[1]>>
    /\ ret.out[1].tasks = <<>>

----------------------------------------------------------------------------
(* A claim about the aliases (SpecAlias).                                  *)

\* C34: resolve_aliases terminates for every alias map that
\* validate_alias_definitions accepts, expansions that start with a flag or
\* with a quoted word included.  As a property of finite runs: the loop is
\* never back, with an alias to replace, at arguments it has started an
\* iteration with before; from such arguments it repeats forever.
C34_AliasExpansionTerminates ==
    (ret.op = "resolve" /\ ~ResolveBreaks(ret.args, ret.aliases)) =>
        ~(Unread(ret.args) \in ret.seen)

----------------------------------------------------------------------------
(* Claims about what a call leaves alone (SpecCall).                       *)

\* the call changed the status, completed_at or completion_history of the
\* i-th task it found
Touched(i) ==
    LET task == TasksOf(ret.was)[i] IN
    \E j \in DOMAIN TasksOf(disk) :
        /\ TasksOf(disk)[j].uid = task.uid
        /\ \/ TasksOf(disk)[j].status # task.status
           \/ TasksOf(disk)[j].completed_at # task.completed_at
           \/ TasksOf(disk)[j].completion_history # task.completion_history

\* the position of the task a Complete or CompleteFocused is about
CompletionTarget ==
    CASE ret.op = "complete" -> Matched
      [] ret.op = "complete_focused" /\ FocusWas.k = "some" ->
            Position(TasksOf(ret.was), FocusWas.v)
      [] OTHER -> 0

\* the arguments of an Edit, Schedule, Reschedule, SetFocus or SetUrgent are
\* ones the call accepts for the matched task, whatever its status
Acceptable ==
    CASE ret.op = "edit" -> Trim(ret.arg) # <<>>
      [] ret.op = "schedule" -> ParseRfc3339(TrimDateTime(ret.arg)).ok
      [] ret.op = "reschedule" ->
            /\ ParseRfc3339(TrimDateTime(ret.arg)).ok
            /\ TasksOf(ret.was)[Matched].scheduled_at.k = "some"
            /\ ParseRfc3339(TasksOf(ret.was)[Matched].scheduled_at.v).ok
            /\ ParseRfc3339(TasksOf(ret.was)[Matched].scheduled_at.v).t < now
      [] OTHER -> TRUE

\* C35: the status, completed_at and completion_history of a task change
\* only in a successful Complete or CompleteFocused of that task: no other
\* call and no failing call changes them; and Edit, Schedule, Reschedule,
\* SetFocus and SetUrgent with acceptable arguments succeed on a matched
\* task, Completed or Pending, when the save succeeds.
C35_OnlyCompletionTouches ==
    ret.op # "none" =>
        /\ \A i \in DOMAIN TasksOf(ret.was) :
              Touched(i) => (ret.err = NoErr /\ i = CompletionTarget)
        /\ (ret.op \in {"edit", "schedule", "reschedule", "set_focus", "set_urgent"}
              /\ ~ret.rejected /\ Matched # 0 /\ ret.io = "ok") =>
                 (Acceptable => ret.err = NoErr)

----------------------------------------------------------------------------

\* the focused_task_id the file d holds; a file that is no document holds none
FocusOf(d) == IF d.kind = "doc" THEN d.focused_task_id ELSE None

\* C36: focused_task_id changes only through four kinds of step: it becomes
\* set or changes target only in a successful SetFocus, to the id given; it
\* becomes absent only in a successful Edit, Delete or Complete of the
\* focused task or a successful CompleteFocused; every other call, every
\* query and every failing call leaves it as it was.
C36_FocusFrame ==
    (ret.op # "none" /\ FocusOf(disk) # FocusOf(ret.was)) =>
        /\ ret.err = NoErr
        /\ IF FocusOf(disk).k = "some"
           THEN ret.op = "set_focus" /\ FocusOf(disk).v = Trim(ret.id)
           ELSE \/ ret.op = "complete_focused"
                \/ /\ ret.op \in {"edit", "delete", "complete"}
                   /\ FocusOf(ret.was) = Some(Trim(ret.id))


----------------------------------------------------------------------------
(* A claim about rescheduling twice (SpecCall).                            *)

\* the instant of the new datetime of the call
NewInstant == ParseRfc3339(TrimDateTime(ret.arg)).t

\* the call was a Reschedule of an overdue task with a parseable new
\* datetime, and its save succeeded
RescheduledOverdue ==
    /\ ret.op = "reschedule"
    /\ ~ret.rejected
    /\ Matched # 0
    /\ Acceptable
    /\ ret.io = "ok"

\* the datetimes a following Reschedule can be given
Parseable == {dt \in RescheduleArgs : ParseRfc3339(TrimDateTime(dt)).ok}

\* a Reschedule of the same task at the same instant, right after the call
Following(dt) == RescheduleTaskWithPath(disk, ret.id, dt, now, ret.lo)

\* C37: Reschedule does not constrain the new datetime: on an overdue task
\* it succeeds for every parseable new datetime, past or future; when the
\* new datetime is strictly before now an immediately following Reschedule
\* of the same task succeeds again, and when it is after now the following
\* Reschedule fails with "task is not overdue".
C37_RescheduleUnconstrained ==
    RescheduledOverdue =>
        /\ ret.err = NoErr
        /\ NewInstant < now =>
              \A dt \in Parseable :
                  Following(dt).err = NoErr /\ Following(dt).save
        /\ NewInstant > now =>
              \A dt \in Parseable :
                  Following(dt).err = InvalidInput("task is not overdue")

\* C37 witness: an overdue task has been rescheduled to a datetime that is
\* itself in the past
C37_Witness ==
    /\ RescheduledOverdue
    /\ ret.err = NoErr
    /\ NewInstant < now
    /\ Following(ret.arg).err = NoErr

=============================================================================
